---- MODULE Spec2Model ----
(***************************************************************************)
(* Model of the classifieds REST API (aiohttp + SQLAlchemy + PostgreSQL).  *)
(*                                                                         *)
(* The store is the two tables of models_async.py.  Every request runs     *)
(* through error_middleware -> session_middleware -> handler; a handler is *)
(* cut at its awaits (request-body read, query, commit), so one action is  *)
(* one region the event loop runs without interleaving.  A database read   *)
(* or commit takes effect at the start of the region that follows its      *)
(* await.  The variable resp holds the exchange completed by the last step.*)
(***************************************************************************)
EXTENDS Integers, Sequences, FiniteSets, TLC

VARIABLES users, userSeq, ads, adSeq, now, reqs, resp, owner0, created0, deleted204

vars == <<users, userSeq, ads, adSeq, now, reqs, resp, owner0, created0, deleted204>>

(***************************************************************************)
(* Bounds of the model.                                                    *)
(***************************************************************************)
MaxUsers == 2
MaxAds == 1
MaxTime == 2
MaxInFlight == 2
MaxReadAds == 3

(***************************************************************************)
(* Program constants.                                                      *)
(***************************************************************************)
TitleMinLen == 3
TitleMaxLen == 200
DescriptionMinLen == 10
OwnerMinLen == 2
OwnerMaxLen == 100
DefaultPage == 1
DefaultPerPage == 10

(***************************************************************************)
(* Text is a sequence of one-character strings.                            *)
(***************************************************************************)
Rep(c, n) == [i \in 1..n |-> c]

T_Bike == <<"B", "i", "k", "e">>
T_Car == <<"C", "a", "r">>
T_Short == <<"a", "b">>
T_Max == Rep("t", TitleMaxLen)
T_Long == Rep("t", TitleMaxLen + 1)
D_Bikes == <<"G", "o", "o", "d", " ", "b", "i", "k", "e", "s">>
D_Car == <<"1", "0", "0", "%", " ", "n", "e", "w", " ", "c", "a", "r">>
D_Short == <<"t", "o", "o", " ", "s", "h", "o", "r", "t">>
O_Ann == <<"A", "n", "n">>
O_Short == <<"x">>

(***************************************************************************)
(* JSON values of a request body field.                                    *)
(***************************************************************************)
Absent == [t |-> "absent"]
JNull == [t |-> "null"]
JStr(s) == [t |-> "str", s |-> s]
JDate(ts) == [t |-> "datetime", ts |-> ts]

BadJson == [json |-> "bad"]
NonObject == [json |-> "array"]
Obj(ti, de, ow, cr) ==
    [json |-> "object", title |-> ti, description |-> de, owner |-> ow, created_at |-> cr]

(***************************************************************************)
(* auth.py: a token is what jwt.encode signed: the signature is good or    *)
(* not, the expiry has passed or not, and the payload names a user.        *)
(***************************************************************************)
GoodToken(u) == [sig |-> TRUE, expired |-> FALSE, uid |-> u]
ExpiredToken(u) == [sig |-> TRUE, expired |-> TRUE, uid |-> u]
ForgedToken(u) == [sig |-> FALSE, expired |-> FALSE, uid |-> u]
ForgedExpiredToken(u) == [sig |-> FALSE, expired |-> TRUE, uid |-> u]

\* create_jwt_token whose payload names no user
create_jwt_token_NoUserId(user_id) == GoodToken(0)

\* jwt.encode of user_id with exp 24 hours ahead, under JWT_SECRET
create_jwt_token(user_id) == GoodToken(user_id)

HttpError(status, message) ==
    [ok |-> FALSE, exc |-> "HttpError", status |-> status, message |-> message,
     errors |-> <<>>, context |-> "none"]

\* an exception that is not an HttpError, with its str(e)
Raised(exc, message) ==
    [ok |-> FALSE, exc |-> exc, status |-> 0, message |-> message, errors |-> <<>>,
     context |-> "none"]

\* an exception of SQLAlchemy; its str(e) starts with the name of its class
SQLAlchemyError(exc) == Raised(exc, exc)

\* the commits of the handlers with every integrity violation answered 500
commit_except_NoConflict(kind, e, rollback_ok) ==
    IF ~rollback_ok /\ (kind # "register" \/ e.exc = "IntegrityError")
    THEN [SQLAlchemyError("OperationalError") EXCEPT !.context = e.exc]
    ELSE IF kind = "register" THEN e
    ELSE [HttpError(500, e.message) EXCEPT !.context = e.exc]

\* the except clauses around session.commit(): add_advertisement and
\* update_advertisement turn an IntegrityError into 409 and any other
\* exception into HttpError(500, str(e)), delete_advertisement turns every
\* exception into HttpError(500, str(e)), register_user catches IntegrityError
\* only; each clause rolls back first, and a rollback that raises replaces
\* the HttpError; an exception raised inside an except clause has the one
\* the clause caught as its __context__
commit_except(kind, e, rollback_ok) ==
    IF ~rollback_ok /\ (kind # "register" \/ e.exc = "IntegrityError")
    THEN [SQLAlchemyError("OperationalError") EXCEPT !.context = e.exc]
    ELSE IF e.exc = "IntegrityError" /\ kind # "delete"
    THEN [HttpError(409, "database error") EXCEPT !.context = e.exc]
    ELSE IF kind = "register" THEN e
    ELSE [HttpError(500, e.message) EXCEPT !.context = e.exc]

\* decode_jwt_token that does not look at the expiry
decode_jwt_token_NoExpiry(token) ==
    IF ~token.sig THEN HttpError(401, "Invalid token")
    ELSE [ok |-> TRUE, user_id |-> token.uid]

\* jwt.decode verifies the signature before the expiry
decode_jwt_token(token) ==
    IF ~token.sig THEN HttpError(401, "Invalid token")
    ELSE IF token.expired THEN HttpError(401, "Token expired")
    ELSE [ok |-> TRUE, user_id |-> token.uid]

(***************************************************************************)
(* The Authorization header: absent, or its value as split(' ') cuts it,   *)
(* the token being the second word.                                        *)
(***************************************************************************)
NoHeader == [present |-> FALSE, words |-> <<>>]
HBasic == [present |-> TRUE, words |-> <<"Basic", ForgedToken(0)>>]
HBare == [present |-> TRUE, words |-> <<"Bearer">>]
HLower(tok) == [present |-> TRUE, words |-> <<"bearer", tok>>]
HBearer(tok) == [present |-> TRUE, words |-> <<"Bearer", tok>>]

\* auth_header.startswith('Bearer ')
StartsWithBearer(h) == Len(h.words) >= 2 /\ h.words[1] = "Bearer"

\* get_user_id_from_token that only checks that the header is there
get_user_id_from_token_AnyScheme(h) ==
    IF ~h.present \/ Len(h.words) < 2
    THEN HttpError(401, "Authorization required")
    ELSE decode_jwt_token(h.words[2])

get_user_id_from_token(h) ==
    IF ~h.present \/ ~StartsWithBearer(h)
    THEN HttpError(401, "Authorization required")
    ELSE decode_jwt_token(h.words[2])

\* the read handlers: try get_user_id_from_token except HttpError: pass
NoUser == 0

\* a read handler that takes the user_id of a bearer token without
\* get_user_id_from_token
current_user_id_of_Unverified(h) ==
    IF h.present /\ StartsWithBearer(h) THEN h.words[2].uid ELSE NoUser

current_user_id_of(h) ==
    LET r == get_user_id_from_token(h) IN IF r.ok THEN r.user_id ELSE NoUser

\* is_owner_of that takes any resolved caller for the owner
is_owner_of_AnyCaller(current_user_id, ad_user_id) == current_user_id # NoUser

is_owner_of(current_user_id, ad_user_id) ==
    IF current_user_id # NoUser THEN current_user_id = ad_user_id ELSE FALSE

(***************************************************************************)
(* schema.py                                                               *)
(***************************************************************************)
validate_title(v) ==
    IF Len(v) < TitleMinLen THEN "title must be at least 3 characters long"
    ELSE IF Len(v) > TitleMaxLen THEN "title must be at most 200 characters long"
    ELSE "ok"

validate_description(v) ==
    IF Len(v) < DescriptionMinLen THEN "description must be at least 10 characters long"
    ELSE "ok"

validate_owner(v) ==
    IF Len(v) < OwnerMinLen THEN "owner name must be at least 2 characters long"
    ELSE IF Len(v) > OwnerMaxLen THEN "owner name must be at most 100 characters long"
    ELSE "ok"

FieldValidator(f, v) ==
    CASE f = "title" -> validate_title(v)
      [] f = "description" -> validate_description(v)
      [] f = "owner" -> validate_owner(v)

\* a str field of BaseAdvertisementRequest: required, a string, then its validator
RequiredStr(f, v) ==
    IF v.t = "absent" THEN "Field required"
    ELSE IF v.t # "str" THEN "Input should be a valid string"
    ELSE FieldValidator(f, v.s)

\* a str | None = None field of UpdateAdvertisementRequest
OptionalStr(f, v) ==
    IF v.t \in {"absent", "null"} THEN "ok"
    ELSE IF v.t # "str" THEN "Input should be a valid string"
    ELSE FieldValidator(f, v.s)

\* created_at: datetime | None = None (pydantic reads a number as a unix time)
OptionalDatetime(v) ==
    IF v.t \in {"absent", "null", "datetime", "num"} THEN "ok"
    ELSE "Input should be a valid datetime"

StrFields == <<"title", "description", "owner">>

CreateAdvertisementRequest(body) ==
    [f \in {"title", "description", "owner"} |-> RequiredStr(f, body[f])]

UpdateAdvertisementRequest(body) ==
    [f \in {"title", "description", "owner", "created_at"} |->
        IF f = "created_at" THEN OptionalDatetime(body[f]) ELSE OptionalStr(f, body[f])]

\* e.errors(): one entry per violated field, in field order
ErrorList(checked, order) ==
    LET bad == SelectSeq(order, LAMBDA f : checked[f] # "ok")
    IN [i \in 1..Len(bad) |-> [loc |-> bad[i], msg |-> checked[bad[i]]]]

\* model_dump(exclude_unset=True): the fields the body set
ModelDump(body, fields) == [f \in {g \in fields : body[g].t # "absent"} |-> body[f]]

\* schema(**json_data) with json_data not a mapping is a TypeError, which
\* validate does not catch
validate(schema, body) ==
    IF body.json # "object"
    THEN Raised("TypeError", "argument after ** must be a mapping") ELSE
    LET checked == IF schema = "create" THEN CreateAdvertisementRequest(body)
                   ELSE UpdateAdvertisementRequest(body)
        order == IF schema = "create" THEN StrFields ELSE StrFields \o <<"created_at">>
        errors == ErrorList(checked, order)
    IN IF errors # <<>>
       THEN [HttpError(400, "") EXCEPT !.errors = errors]
       ELSE [ok |-> TRUE, data |-> ModelDump(body, DOMAIN checked)]

(***************************************************************************)
(* models_async.py: the rows of the two tables.  A table is a function     *)
(* from the primary keys in use to rows; the id sequences never go back.   *)
(***************************************************************************)
UserRow(email, password_hash) == [email |-> email, password_hash |-> password_hash]

AdRow(title, description, created_at, user_id) ==
    [title |-> title, description |-> description, created_at |-> created_at,
     user_id |-> user_id]

\* User.set_password / User.check_password: a salted one-way hash
set_password(password) == <<"bcrypt", password>>
check_password(password_hash, password) == password_hash = <<"bcrypt", password>>

Insert(table, id, row) == [i \in DOMAIN table \cup {id} |-> IF i = id THEN row ELSE table[i]]
Delete(table, id) == [i \in DOMAIN table \ {id} |-> table[i]]

\* datetime.isoformat() of a created_at
Isoformat(ts) == [iso |-> ts]

\* Advertisement.json
AdJson(id, ad) ==
    [id |-> id, title |-> ad.title, description |-> ad.description,
     created_at |-> Isoformat(ad.created_at), user_id |-> ad.user_id]

(***************************************************************************)
(* A request in flight: the handler it runs, the await it is suspended at, *)
(* and the locals of the handler that live across that await.              *)
(***************************************************************************)
NoData == [none |-> TRUE]
NoFilter == [on |-> FALSE, v |-> 0]
NoParams ==
    [show_html |-> FALSE, negotiation |-> <<<<>>, <<>>>>, page |-> 0, per_page |-> 0,
     user_id |-> NoFilter, q |-> <<>>, raw |-> <<>>]

Idle ==
    [kind |-> "idle", pc |-> "idle", hdr |-> NoHeader, body |-> BadJson, ad_id |-> 0,
     user_id |-> NoUser, data |-> NoData, params |-> NoParams, late |-> FALSE,
     session |-> "none", sessions |-> 0, events |-> <<>>]

\* a session_middleware that hands every request one module-level session
\* instead of opening one with Session()
SessionEnter_Shared(r) == [r EXCEPT !.events = Append(@, "SessionAcquired")]

\* session_middleware: Session() opens the request's session before the handler
\* runs, and leaving the async with block closes it on every way out
SessionEnter(r) ==
    [r EXCEPT !.session = "open", !.sessions = @ + 1,
              !.events = Append(@, "SessionAcquired")]

\* a session that is never closed
SessionExit_Leaked(r) == r

SessionExit(r) ==
    IF r.session = "open"
    THEN [r EXCEPT !.session = "closed", !.events = Append(@, "SessionReleased")]
    ELSE r

\* what the region of a handler that starts at an await (the first one at
\* "idle") has done when it ends without raising: get_user_id_from_token called
\* (AuthResolved) or not called by this handler (AuthSkipped), the body or the
\* parameters validated, the store read or written (Handled).  The write
\* handlers resolve the caller first; list, get and search parse their
\* parameters, run the query and resolve the caller after it.
Pipeline(kind, region) ==
    CASE region = "idle" /\ kind \in {"create", "update", "delete"} -> <<"AuthResolved">>
      [] region = "idle" /\ kind \in {"register", "login"} -> <<"AuthSkipped">>
      [] region = "idle" -> <<"Validated">>
      [] region = "body" -> <<"Validated">>
      [] region = "query" /\ kind \in {"list", "get", "search"} ->
            <<"Handled", "AuthResolved">>
      [] region = "query" -> <<"Handled">>
      [] region = "commit" -> <<"Handled">>
      [] OTHER -> <<>>

Slots == 1..MaxInFlight

\* a new request takes the first free slot
FreeSlot(s) == reqs[s].pc = "idle" /\ \A t \in Slots : t < s => reqs[t].pc # "idle"

InFlight(kind) == Cardinality({s \in Slots : reqs[s].kind = kind})

(***************************************************************************)
(* The exchange completed by a step: the request as the handler read it    *)
(* and the response error_middleware lets out.  stage names the region of  *)
(* the handler that produced the response.                                 *)
(***************************************************************************)
NoRaise == [ok |-> TRUE]

NoResp ==
    [kind |-> "none", stage |-> "none", status |-> 0, message |-> "", errors |-> <<>>,
     data |-> NoData, format |-> "none", hdr |-> NoHeader, body |-> BadJson,
     ad_id |-> 0, user_id |-> NoUser, params |-> NoParams, late |-> FALSE,
     session |-> "none", sessions |-> 0, events |-> <<>>, raised |-> NoRaise]

\* what the handler returns, seen after session_middleware has left its block
Response(r, stage, status, message, errors, data, format) ==
    [kind |-> r.kind, stage |-> stage, status |-> status, message |-> message,
     errors |-> errors, data |-> data, format |-> format, hdr |-> r.hdr,
     body |-> r.body, ad_id |-> r.ad_id, user_id |-> r.user_id, params |-> r.params,
     late |-> r.late, session |-> SessionExit(r).session, sessions |-> r.sessions,
     events |-> IF status >= 400 THEN SessionExit(r).events
                ELSE SessionExit([r EXCEPT !.events =
                                     @ \o Pipeline(r.kind, stage) \o <<"Rendered">>]).events,
     raised |-> NoRaise]

\* error_middleware as the inner middleware: the error is translated inside
\* the session's block
error_middleware_InsideSession(r, stage, e) ==
    LET t == CASE e.exc = "HttpError" ->
                      [status |-> e.status, message |-> e.message, errors |-> e.errors]
               [] e.exc = "JSONDecodeError" ->
                      [status |-> 400, message |-> "Invalid JSON", errors |-> <<>>]
               [] OTHER -> [status |-> 500, message |-> e.message, errors |-> <<>>]
        rsp == Response([r EXCEPT !.events = Append(@, "ErrorTranslated")], stage,
                        t.status, t.message, t.errors, NoData, "json")
    IN [rsp EXCEPT !.raised = e]

\* error_middleware whose last except clause is missing
error_middleware_NoCatchAll(r, stage, e) ==
    LET t == CASE e.exc = "HttpError" ->
                      [status |-> e.status, message |-> e.message, errors |-> e.errors]
               [] e.exc = "JSONDecodeError" ->
                      [status |-> 400, message |-> "Invalid JSON", errors |-> <<>>]
               [] OTHER -> [status |-> 0, message |-> "", errors |-> <<>>]
        rsp == Response(r, stage, t.status, t.message, t.errors, NoData, "json")
    IN [rsp EXCEPT !.raised = e, !.events = Append(@, "ErrorTranslated")]

\* error_middleware: an HttpError gives its status and message (the message of
\* a validation error is the list of its errors), a json.JSONDecodeError 400
\* "Invalid JSON", any other exception a 500 with str(e); the exception has
\* left session_middleware's block before it is translated
error_middleware(r, stage, e) ==
    LET t == CASE e.exc = "HttpError" ->
                      [status |-> e.status, message |-> e.message, errors |-> e.errors]
               [] e.exc = "JSONDecodeError" ->
                      [status |-> 400, message |-> "Invalid JSON", errors |-> <<>>]
               [] OTHER -> [status |-> 500, message |-> e.message, errors |-> <<>>]
        rsp == Response(r, stage, t.status, t.message, t.errors, NoData, "json")
    IN [rsp EXCEPT !.raised = e, !.events = Append(@, "ErrorTranslated")]

\* the region of request s that follows its await at pc
At(s, kind, pc) == resp = NoResp /\ reqs[s].kind = kind /\ reqs[s].pc = pc

\* a request arrives
Arrives(s) == resp = NoResp /\ FreeSlot(s)

Finish(s, rsp) == reqs' = [reqs EXCEPT ![s] = Idle] /\ resp' = rsp
Suspend(s, r) ==
    /\ reqs' = [reqs EXCEPT ![s] = [r EXCEPT !.events = @ \o Pipeline(r.kind, reqs[s].pc)]]
    /\ resp' = NoResp

UsersUnchanged == UNCHANGED <<users, userSeq>>
AdsUnchanged == UNCHANGED <<ads, adSeq, now, owner0, created0, deleted204>>

(***************************************************************************)
(* The SQLAlchemy session over PostgreSQL.                                 *)
(***************************************************************************)
\* session.get(Advertisement, ad_id)
session_get(table, id) ==
    IF id \in DOMAIN table THEN [found |-> TRUE, row |-> table[id]]
    ELSE [found |-> FALSE, row |-> NoData]

\* the columns a flush writes: an attribute set to the value it was loaded
\* with has no net change
DirtyColumns(ad, data) ==
    {f \in {"title", "description"} \cap DOMAIN data : data[f] # JStr(ad[f])}

\* UpdateWrites that also assigns ad.created_at from the body
UpdateWrites_CreatedAt(ad, data) ==
    [f \in DirtyColumns(ad, data) \cup ({"created_at"} \cap DOMAIN data) |-> data[f]]

\* update_advertisement: the assignments to ad.title and ad.description
\* (owner and created_at of the body are validated and then ignored)
UpdateWrites(ad, data) == [f \in DirtyColumns(ad, data) |-> data[f]]

\* the column value of a validated body field
ColumnValue(v) == IF v.t = "datetime" THEN v.ts ELSE v.s

\* FlushUpdate on columns without NOT NULL: None is stored, shown as <<>>
FlushUpdate_Nullable(table, id, writes) ==
    IF DOMAIN writes = {} THEN [outcome |-> "ok", table |-> table]
    ELSE IF id \notin DOMAIN table THEN [outcome |-> "stale", table |-> table]
    ELSE [outcome |-> "ok",
          table |-> [table EXCEPT ![id] =
                        [c \in DOMAIN table[id] |->
                            IF c \notin DOMAIN writes THEN table[id][c]
                            ELSE IF writes[c].t = "null" THEN <<>>
                            ELSE ColumnValue(writes[c])]]]

\* FlushUpdate that sends an UPDATE when nothing is dirty and counts the rows
\* it changed
FlushUpdate_RowsChanged(table, id, writes) ==
    IF DOMAIN writes = {} \/ id \notin DOMAIN table THEN [outcome |-> "stale", table |-> table]
    ELSE IF \E f \in DOMAIN writes : writes[f].t = "null"
    THEN [outcome |-> "integrity", table |-> table]
    ELSE [outcome |-> "ok",
          table |-> [table EXCEPT ![id] =
                        [c \in DOMAIN table[id] |->
                            IF c \in DOMAIN writes THEN ColumnValue(writes[c]) ELSE table[id][c]]]]

\* the UPDATE of a flush: no statement when nothing is dirty; StaleDataError
\* when the row is gone; IntegrityError when a NOT NULL column gets NULL
FlushUpdate(table, id, writes) ==
    IF DOMAIN writes = {} THEN [outcome |-> "ok", table |-> table]
    ELSE IF id \notin DOMAIN table THEN [outcome |-> "stale", table |-> table]
    ELSE IF \E f \in DOMAIN writes : writes[f].t = "null"
    THEN [outcome |-> "integrity", table |-> table]
    ELSE [outcome |-> "ok",
          table |-> [table EXCEPT ![id] =
                        [c \in DOMAIN table[id] |->
                            IF c \in DOMAIN writes THEN ColumnValue(writes[c]) ELSE table[id][c]]]]

\* FlushDelete that leaves the row in place
FlushDelete_Kept(table, id) == table

\* the DELETE of a flush: a row that is already gone is only warned about
FlushDelete(table, id) == IF id \in DOMAIN table THEN Delete(table, id) ELSE table

\* authorize_owner without the owner comparison of update_advertisement
authorize_owner_NoEditCheck(got, user_id, verb) ==
    IF ~got.found THEN HttpError(404, "advertisement not found")
    ELSE IF got.row.user_id # user_id /\ verb = "delete"
    THEN HttpError(403, "You can only delete your own advertisements")
    ELSE [ok |-> TRUE]

\* authorize_owner that compares the owners before it looks whether
\* session.get found the advertisement
authorize_owner_OwnerFirst(got, user_id, verb) ==
    IF ~got.found THEN Raised("AttributeError", "'NoneType' object has no attribute 'user_id'")
    ELSE IF got.row.user_id # user_id
    THEN HttpError(403, IF verb = "update" THEN "You can only edit your own advertisements"
                        ELSE "You can only delete your own advertisements")
    ELSE [ok |-> TRUE]

\* authorize_owner without the owner comparison of delete_advertisement
authorize_owner_NoDeleteCheck(got, user_id, verb) ==
    IF ~got.found THEN HttpError(404, "advertisement not found")
    ELSE IF got.row.user_id # user_id /\ verb = "update"
    THEN HttpError(403, "You can only edit your own advertisements")
    ELSE [ok |-> TRUE]

\* update_advertisement and delete_advertisement: the check after session.get
authorize_owner(got, user_id, verb) ==
    IF ~got.found THEN HttpError(404, "advertisement not found")
    ELSE IF got.row.user_id # user_id
    THEN HttpError(403, IF verb = "update" THEN "You can only edit your own advertisements"
                        ELSE "You can only delete your own advertisements")
    ELSE [ok |-> TRUE]

(***************************************************************************)
(* create_advertisement                                                    *)
(***************************************************************************)
create_advertisement_auth(s, hdr) ==
    /\ Arrives(s)
    /\ LET r == [SessionEnter(Idle) EXCEPT !.kind = "create", !.hdr = hdr]
           u == get_user_id_from_token(hdr)
       IN IF ~u.ok THEN Finish(s, error_middleware(r, "auth", u))
          ELSE Suspend(s, [r EXCEPT !.pc = "body", !.user_id = u.user_id])
    /\ UsersUnchanged /\ AdsUnchanged

ReadBody(s, r, body, schema, next) ==
    IF body.json = "bad"
    THEN Finish(s, error_middleware(r, "body", HttpError(400, "Invalid JSON")))
    ELSE LET v == validate(schema, body)
         IN IF ~v.ok THEN Finish(s, error_middleware(r, "body", v))
            ELSE Suspend(s, [r EXCEPT !.pc = next, !.data = v.data])

create_advertisement_body(s, body) ==
    /\ At(s, "create", "body")
    /\ ReadBody(s, [reqs[s] EXCEPT !.body = body], body, "create", "commit")
    /\ UsersUnchanged /\ AdsUnchanged

\* add_advertisement: the INSERT takes the next id and now() as created_at
create_advertisement_commit(s) ==
    /\ At(s, "create", "commit")
    /\ LET r == reqs[s]
           id == adSeq + 1
       IN IF r.user_id \notin DOMAIN users
          THEN /\ Finish(s, error_middleware(r, "commit",
                                              commit_except("create",
                                                SQLAlchemyError("IntegrityError"),
                                                TRUE)))
               /\ adSeq' = id
               /\ UNCHANGED <<ads, now, owner0, created0>>
          ELSE \E t \in {now, now + 1} :
               /\ t <= MaxTime
               /\ ads' = Insert(ads, id, AdRow(r.data.title.s, r.data.description.s, t, r.user_id))
               /\ adSeq' = id
               /\ now' = t
               /\ owner0' = Insert(owner0, id, r.user_id)
               /\ created0' = Insert(created0, id, t)
               /\ Finish(s, Response(r, "commit", 201, "", <<>>, [id |-> id], "json"))
    /\ UNCHANGED deleted204
    /\ UsersUnchanged

(***************************************************************************)
(* update_advertisement                                                    *)
(***************************************************************************)
MutateAuth(s, kind, hdr, ad_id, next) ==
    /\ Arrives(s)
    /\ LET r == [SessionEnter(Idle) EXCEPT !.kind = kind, !.hdr = hdr, !.ad_id = ad_id,
                             !.late = (ad_id \in deleted204)]
           u == get_user_id_from_token(hdr)
       IN IF ~u.ok THEN Finish(s, error_middleware(r, "auth", u))
          ELSE Suspend(s, [r EXCEPT !.pc = next, !.user_id = u.user_id])
    /\ UsersUnchanged /\ AdsUnchanged

update_advertisement_auth(s, hdr, ad_id) == MutateAuth(s, "update", hdr, ad_id, "body")

update_advertisement_body(s, body) ==
    /\ At(s, "update", "body")
    /\ ReadBody(s, [reqs[s] EXCEPT !.body = body], body, "update", "query")
    /\ UsersUnchanged /\ AdsUnchanged

update_advertisement_query(s) ==
    /\ At(s, "update", "query")
    /\ LET r == reqs[s]
           got == session_get(ads, r.ad_id)
           a == authorize_owner(got, r.user_id, "update")
       IN IF ~a.ok THEN Finish(s, error_middleware(r, "query", a))
          ELSE Suspend(s, [r EXCEPT !.pc = "commit", !.data = UpdateWrites(got.row, r.data)])
    /\ UsersUnchanged /\ AdsUnchanged

update_advertisement_commit(s) ==
    /\ At(s, "update", "commit")
    /\ LET r == reqs[s]
           f == FlushUpdate(ads, r.ad_id, r.data)
       IN /\ ads' = f.table
          /\ Finish(s, CASE f.outcome = "ok" ->
                            Response(r, "commit", 200, "", <<>>, [id |-> r.ad_id], "json")
                         [] f.outcome = "integrity" ->
                            error_middleware(r, "commit",
                                             commit_except("update",
                                               SQLAlchemyError("IntegrityError"),
                                               TRUE))
                         [] f.outcome = "stale" ->
                            error_middleware(r, "commit",
                                             commit_except("update",
                                               SQLAlchemyError("StaleDataError"),
                                               TRUE)))
    /\ UNCHANGED <<adSeq, now, owner0, created0, deleted204>>
    /\ UsersUnchanged

(***************************************************************************)
(* delete_advertisement                                                    *)
(***************************************************************************)
delete_advertisement_auth(s, hdr, ad_id) == MutateAuth(s, "delete", hdr, ad_id, "query")

delete_advertisement_query(s) ==
    /\ At(s, "delete", "query")
    /\ LET r == reqs[s]
           a == authorize_owner(session_get(ads, r.ad_id), r.user_id, "delete")
       IN IF ~a.ok THEN Finish(s, error_middleware(r, "query", a))
          ELSE Suspend(s, [r EXCEPT !.pc = "commit"])
    /\ UsersUnchanged /\ AdsUnchanged

delete_advertisement_commit(s) ==
    /\ At(s, "delete", "commit")
    /\ ads' = FlushDelete(ads, reqs[s].ad_id)
    /\ deleted204' = deleted204 \cup {reqs[s].ad_id}
    /\ Finish(s, Response(reqs[s], "commit", 204, "", <<>>, NoData, "none"))
    /\ UNCHANGED <<adSeq, now, owner0, created0>>
    /\ UsersUnchanged

(***************************************************************************)
(* register_user and login_user.  UserCreate and UserLogin are imported    *)
(* from schema but not defined there: both are taken to require a string   *)
(* email and a string password, the email not empty.                       *)
(***************************************************************************)
Credentials(em, pw) == [json |-> "object", email |-> em, password |-> pw]

RequiredText(v) ==
    IF v.t = "absent" THEN "Field required"
    ELSE IF v.t # "str" THEN "Input should be a valid string"
    ELSE "ok"

validate_user(body) ==
    IF body.json # "object"
    THEN Raised("TypeError", "argument after ** must be a mapping") ELSE
    LET checked == [f \in {"email", "password"} |->
                      IF f = "email" /\ body[f] = JStr("") THEN "email must not be empty"
                      ELSE RequiredText(body[f])]
        errors == ErrorList(checked, <<"email", "password">>)
    IN IF errors # <<>>
       THEN [HttpError(400, "") EXCEPT !.errors = errors]
       ELSE [ok |-> TRUE, data |-> [f \in {"email", "password"} |-> body[f].s]]

\* select(User).where(User.email == email) ... scalar_one_or_none()
UserByEmail(table, email) == {i \in DOMAIN table : table[i].email = email}

CredentialsBody(s, kind, body) ==
    /\ At(s, kind, "body")
    /\ LET r == [reqs[s] EXCEPT !.body = body]
       IN IF body.json = "bad"
          THEN Finish(s, error_middleware(r, "body", HttpError(400, "Invalid JSON")))
          ELSE LET v == validate_user(body)
               IN IF ~v.ok THEN Finish(s, error_middleware(r, "body", v))
                  ELSE Suspend(s, [r EXCEPT !.pc = "query", !.data = v.data])
    /\ UsersUnchanged /\ AdsUnchanged

register_user_start(s) ==
    /\ Arrives(s)
    /\ Suspend(s, [SessionEnter(Idle) EXCEPT !.kind = "register", !.pc = "body"])
    /\ UsersUnchanged /\ AdsUnchanged

register_user_body(s, body) == CredentialsBody(s, "register", body)

register_user_query(s) ==
    /\ At(s, "register", "query")
    /\ IF UserByEmail(users, reqs[s].data.email) # {}
       THEN Finish(s, error_middleware(reqs[s], "query", HttpError(409, "User already exists")))
       ELSE Suspend(s, [reqs[s] EXCEPT !.pc = "commit"])
    /\ UsersUnchanged /\ AdsUnchanged

\* register_user_commit on a users table without the unique index on email
register_user_commit_NoUniqueIndex(s) ==
    /\ At(s, "register", "commit")
    /\ LET r == reqs[s]
           id == userSeq + 1
       IN /\ userSeq' = id
          /\ users' = Insert(users, id, UserRow(r.data.email, set_password(r.data.password)))
          /\ Finish(s, Response([r EXCEPT !.user_id = id], "commit", 200, "", <<>>,
                                [token |-> create_jwt_token(id), user_id |-> id], "json"))
    /\ AdsUnchanged

\* the INSERT takes the next id before the unique index on email rejects it
register_user_commit(s) ==
    /\ At(s, "register", "commit")
    /\ LET r == reqs[s]
           id == userSeq + 1
       IN /\ userSeq' = id
          /\ IF UserByEmail(users, r.data.email) # {}
             THEN /\ users' = users
                  /\ Finish(s, error_middleware(r, "commit",
                                                 commit_except("register",
                                                   SQLAlchemyError("IntegrityError"),
                                                   TRUE)))
             ELSE /\ users' = Insert(users, id, UserRow(r.data.email, set_password(r.data.password)))
                  /\ Finish(s, Response([r EXCEPT !.user_id = id], "commit", 200, "", <<>>,
                                        [token |-> create_jwt_token(id), user_id |-> id], "json"))
    /\ AdsUnchanged

login_user_start(s) ==
    /\ Arrives(s)
    /\ Suspend(s, [SessionEnter(Idle) EXCEPT !.kind = "login", !.pc = "body"])
    /\ UsersUnchanged /\ AdsUnchanged

login_user_body(s, body) == CredentialsBody(s, "login", body)

login_user_query(s) ==
    /\ At(s, "login", "query")
    /\ LET r == reqs[s]
           found == UserByEmail(users, r.data.email)
       IN IF found = {} \/ \A i \in found : ~check_password(users[i].password_hash, r.data.password)
          THEN Finish(s, error_middleware(r, "query", HttpError(401, "Invalid credentials")))
          ELSE LET id == CHOOSE i \in found : TRUE
               IN Finish(s, Response([r EXCEPT !.user_id = id], "query", 200, "", <<>>,
                                     [token |-> create_jwt_token(id), user_id |-> id], "json"))
    /\ UsersUnchanged /\ AdsUnchanged

(***************************************************************************)
(* Faults of the database connection.  They reach a request at             *)
(* Session() and at the awaits of session.get, session.execute and         *)
(* session.commit.                                                         *)
(***************************************************************************)
\* Session() raises in session_middleware: the handler is not called
session_middleware_fails(s, kind) ==
    /\ Arrives(s)
    /\ Finish(s, error_middleware([Idle EXCEPT !.kind = kind], "session",
                                  SQLAlchemyError("OperationalError")))
    /\ UsersUnchanged /\ AdsUnchanged

\* session.get or session.execute raises: no handler catches it
query_fails(s) ==
    /\ resp = NoResp /\ reqs[s].pc = "query"
    /\ Finish(s, error_middleware(reqs[s], "query", SQLAlchemyError("OperationalError")))
    /\ UsersUnchanged /\ AdsUnchanged

\* session.commit() raises an exception that is not an IntegrityError: the
\* transaction writes nothing; an INSERT that was sent has taken its id
commit_fails(s, rollback_ok, flushed) ==
    /\ resp = NoResp /\ reqs[s].pc = "commit"
    /\ Finish(s, error_middleware(reqs[s], "commit",
                                  commit_except(reqs[s].kind,
                                                SQLAlchemyError("OperationalError"),
                                                rollback_ok)))
    /\ adSeq' = IF flushed /\ reqs[s].kind = "create" THEN adSeq + 1 ELSE adSeq
    /\ userSeq' = IF flushed /\ reqs[s].kind = "register" THEN userSeq + 1 ELSE userSeq
    /\ UNCHANGED <<users, ads, now, owner0, created0, deleted204>>

\* a cancellation under a session_middleware that calls the handler outside
\* an async with block
CancelledAt_NoExit(r, stage) ==
    [Response(r, stage, 0, "", <<>>, NoData, "none")
        EXCEPT !.session = r.session, !.events = r.events,
               !.raised = Raised("CancelledError", "")]

\* asyncio.CancelledError raised at the await of stage.  It is a BaseException:
\* the except Exception clauses of the handlers, of add_advertisement and of
\* error_middleware let it pass, so no response is built; it leaves the async
\* with block of session_middleware, which closes the session.
CancelledAt(r, stage) ==
    [Response(r, stage, 0, "", <<>>, NoData, "none")
        EXCEPT !.session = SessionExit(r).session, !.events = SessionExit(r).events,
               !.raised = Raised("CancelledError", "")]

\* the task of request s is cancelled while it waits for its body, its query or
\* its commit; closing the session rolls back what the commit had flushed, and
\* an INSERT that was sent has taken its id
cancelled(s, flushed) ==
    /\ resp = NoResp /\ reqs[s].pc \in {"body", "query", "commit"}
    /\ Finish(s, CancelledAt(reqs[s], reqs[s].pc))
    /\ adSeq' = IF flushed /\ reqs[s].pc = "commit" /\ reqs[s].kind = "create"
               THEN adSeq + 1 ELSE adSeq
    /\ userSeq' = IF flushed /\ reqs[s].pc = "commit" /\ reqs[s].kind = "register"
                 THEN userSeq + 1 ELSE userSeq
    /\ UNCHANGED <<users, ads, now, owner0, created0, deleted204>>

(***************************************************************************)
(* Python and SQL helpers of the read handlers.                            *)
(***************************************************************************)
UpperAlpha == <<"A", "B", "C", "D", "E", "F", "G", "H", "I", "J", "K", "L", "M",
                "N", "O", "P", "Q", "R", "S", "T", "U", "V", "W", "X", "Y", "Z">>
LowerAlpha == <<"a", "b", "c", "d", "e", "f", "g", "h", "i", "j", "k", "l", "m",
                "n", "o", "p", "q", "r", "s", "t", "u", "v", "w", "x", "y", "z">>

LowerChar(c) ==
    IF \E i \in DOMAIN UpperAlpha : UpperAlpha[i] = c
    THEN LowerAlpha[CHOOSE i \in DOMAIN UpperAlpha : UpperAlpha[i] = c]
    ELSE c

ToLower(text) == [i \in DOMAIN text |-> LowerChar(text[i])]

\* str.lower()
Lower(x) == ToLower(x)

\* needle in text
Substring(needle, text) ==
    \E k \in 1..(Len(text) - Len(needle) + 1) : SubSeq(text, k, k + Len(needle) - 1) = needle

F_Html == <<"h", "t", "m", "l">>
F_HtmlUpper == <<"H", "T", "M", "L">>
F_Json == <<"j", "s", "o", "n">>
A_Html == <<"t", "e", "x", "t", "/", "h", "t", "m", "l">>
A_HtmlMixed == <<"T", "e", "x", "t", "/", "H", "T", "M", "L">>
A_Json == <<"a", "p", "p", "l", "i", "c", "a", "t", "i", "o", "n", "/", "j", "s", "o", "n">>
A_HtmlAndJson == <<"t", "e", "x", "t", "/", "h", "t", "m", "l", ",", "a", "p", "p", "l", "i", "c", "a", "t", "i", "o", "n", "/", "j", "s", "o", "n">>

\* ShowHtml that lets an Accept header naming application/json decide
ShowHtml_JsonWins(format_param, accept_header) ==
    /\ ~Substring(A_Json, Lower(accept_header))
    /\ Lower(format_param) = F_Html \/ Substring(A_Html, Lower(accept_header))

\* format=html first, else Accept with text/html and without application/json
ShowHtml(format_param, accept_header) ==
    IF Lower(format_param) = F_Html THEN TRUE
    ELSE /\ Substring(A_Html, Lower(accept_header))
         /\ ~Substring(A_Json, Lower(accept_header))

\* a query parameter as request.query.get returns it
QInt(n) == [t |-> "int", v |-> n]
QJunk == [t |-> "junk"]
QEmpty == [t |-> "empty"]

\* int(request.query.get(name, default))
PyInt(raw, default) ==
    IF raw.t = "absent" THEN [ok |-> TRUE, v |-> default]
    ELSE IF raw.t = "int" THEN [ok |-> TRUE, v |-> raw.v]
    ELSE [ok |-> FALSE, v |-> 0]

\* seq[start:end]: a negative index counts from the end
PyIndex(i, n) == IF i < 0 THEN (IF i + n < 0 THEN 0 ELSE i + n) ELSE (IF i > n THEN n ELSE i)
PySlice(seq, start, end) == SubSeq(seq, PyIndex(start, Len(seq)) + 1, PyIndex(end, Len(seq)))

\* a // b with b # 0: the floor of the quotient
PyFloorDiv(a, b) == IF b > 0 THEN a \div b ELSE (-a) \div (-b)

Perms(S) == {o \in [1..Cardinality(S) -> S] : \A i, j \in 1..Cardinality(S) : i # j => o[i] # o[j]}

\* ORDER BY created_at DESC: rows with equal created_at come in any order
OrderByCreatedDesc(table, S) ==
    {o \in Perms(S) : \A i \in 1..(Cardinality(S) - 1) :
        table[o[i]].created_at >= table[o[i + 1]].created_at}

\* text LIKE pattern: % is any run, _ any one character, \ escapes
RECURSIVE LikeMatch(_, _)
LikeMatch(p, t) ==
    IF p = <<>> THEN t = <<>>
    ELSE IF p = <<"%">> THEN TRUE
    ELSE IF Head(p) = "%"
    THEN \E k \in 0..Len(t) : LikeMatch(Tail(p), SubSeq(t, k + 1, Len(t)))
    ELSE IF t = <<>> THEN FALSE
    ELSE IF Head(p) = "\\" /\ Len(p) >= 2
    THEN p[2] = Head(t) /\ LikeMatch(Tail(Tail(p)), Tail(t))
    ELSE (Head(p) = "_" \/ Head(p) = Head(t)) /\ LikeMatch(Tail(p), Tail(t))

\* column.ilike(f'%{query_text}%')
ILike(text, query_text) == LikeMatch(<<"%">> \o ToLower(query_text) \o <<"%">>, ToLower(text))

SearchMatches(table, query_text) ==
    {i \in DOMAIN table : ILike(table[i].title, query_text) \/ ILike(table[i].description, query_text)}

\* strftime('%d.%m.%Y %H:%M'): the clock ticks twice a minute
Strftime(ts) == [minute |-> ts \div 2]

(***************************************************************************)
(* The renderings of the read handlers.                                    *)
(***************************************************************************)
\* JsonItem that shows the description to the owner only
JsonItem_OwnersOnly(table, id, current_user_id) ==
    [id |-> id, title |-> table[id].title,
     description |-> IF is_owner_of(current_user_id, table[id].user_id)
                     THEN table[id].description ELSE <<>>,
     created_at |-> Isoformat(table[id].created_at), user_id |-> table[id].user_id,
     is_owner |-> is_owner_of(current_user_id, table[id].user_id)]

\* ad.json plus is_owner
JsonItem(table, id, current_user_id) ==
    [id |-> id, title |-> table[id].title, description |-> table[id].description,
     created_at |-> Isoformat(table[id].created_at), user_id |-> table[id].user_id,
     is_owner |-> is_owner_of(current_user_id, table[id].user_id)]

\* the <div class="ad"> of the list page and the page of one advertisement
HtmlItem(table, id, current_user_id) ==
    [id |-> id, title |-> table[id].title, description |-> table[id].description,
     created |-> Strftime(table[id].created_at), user_id |-> table[id].user_id,
     badge |-> is_owner_of(current_user_id, table[id].user_id)]

\* the <div class="ad"> of the search page shows no badge
SearchHtmlItem(table, id) ==
    [id |-> id, title |-> table[id].title, description |-> table[id].description,
     created |-> Strftime(table[id].created_at), user_id |-> table[id].user_id]

\* (total + per_page - 1) // per_page
Pages(total, per_page) == PyFloorDiv(total + per_page - 1, per_page)

\* all_ads[start:end] with start = (page - 1) * per_page
Window(all_ads, page, per_page) ==
    PySlice(all_ads, (page - 1) * per_page, (page - 1) * per_page + per_page)

\* where(Advertisement.user_id == user_id_int), when user_id is given
Filtered(table, filter) ==
    IF filter.on THEN {i \in DOMAIN table : table[i].user_id = filter.v} ELSE DOMAIN table

\* list_advertisements after the query returned all_ads
ListResponse(r, table, all_ads, hdr) ==
    LET q == r.params
        rr == [r EXCEPT !.hdr = hdr]
        total == Len(all_ads)
        paginated_ads == Window(all_ads, q.page, q.per_page)
        current_user_id == current_user_id_of(hdr)
    IN IF q.per_page = 0
       THEN error_middleware(rr, "query",
                             Raised("ZeroDivisionError",
                                    "integer division or modulo by zero"))
       ELSE IF q.show_html
       THEN Response(rr, "query", 200, "", <<>>,
                     [total |-> total, page |-> q.page, pages |-> Pages(total, q.per_page),
                      shown |-> Len(paginated_ads),
                      advertisements |-> [i \in DOMAIN paginated_ads |->
                          HtmlItem(table, paginated_ads[i], current_user_id)]], "html")
       ELSE Response(rr, "query", 200, "", <<>>,
                     [advertisements |-> [i \in DOMAIN paginated_ads |->
                          JsonItem(table, paginated_ads[i], current_user_id)],
                      total |-> total, page |-> q.page, per_page |-> q.per_page,
                      pages |-> Pages(total, q.per_page)], "json")

\* get_advertisement after session.get returned
GetResponse(r, table, hdr, format_param, accept_header) ==
    IF r.ad_id \notin DOMAIN table
    THEN error_middleware(r, "query", HttpError(404, "advertisement not found"))
    ELSE LET rr == [r EXCEPT !.hdr = hdr,
                             !.params.show_html = ShowHtml(format_param, accept_header),
                             !.params.negotiation = <<format_param, accept_header>>]
             current_user_id == current_user_id_of(hdr)
         IN IF rr.params.show_html
            THEN Response(rr, "query", 200, "", <<>>, HtmlItem(table, r.ad_id, current_user_id), "html")
            ELSE Response(rr, "query", 200, "", <<>>, JsonItem(table, r.ad_id, current_user_id), "json")

\* search_advertisements after the query returned ads
SearchResponse(r, table, found, hdr) ==
    LET rr == [r EXCEPT !.hdr = hdr]
        current_user_id == current_user_id_of(hdr)
    IN IF r.params.show_html
       THEN Response(rr, "query", 200, "", <<>>,
                     [query |-> r.params.q, count |-> Len(found),
                      results |-> [i \in DOMAIN found |-> SearchHtmlItem(table, found[i])]], "html")
       ELSE Response(rr, "query", 200, "", <<>>,
                     [query |-> r.params.q, count |-> Len(found),
                      results |-> [i \in DOMAIN found |-> JsonItem(table, found[i], current_user_id)]],
                     "json")

(***************************************************************************)
(* list_advertisements, get_advertisement, search_advertisements           *)
(***************************************************************************)
list_advertisements_start(s, format_param, accept_header, page, per_page, user_id) ==
    /\ Arrives(s)
    /\ LET r == [SessionEnter(Idle) EXCEPT !.kind = "list", !.params.raw = <<page, per_page, user_id>>]
           pg == PyInt(page, DefaultPage)
           pp == PyInt(per_page, DefaultPerPage)
           uid == PyInt(user_id, 0)
           filtering == user_id.t \notin {"absent", "empty"}
       IN IF ~pg.ok \/ ~pp.ok
          THEN Finish(s, error_middleware(r, "start",
                          HttpError(400, "page and per_page must be integers")))
          ELSE IF filtering /\ ~uid.ok
          THEN Finish(s, error_middleware(r, "start", HttpError(400, "user_id must be an integer")))
          ELSE Suspend(s, [r EXCEPT !.pc = "query",
                                    !.params = [show_html |-> ShowHtml(format_param, accept_header),
                                                negotiation |-> <<format_param, accept_header>>,
                                                page |-> pg.v, per_page |-> pp.v,
                                                user_id |-> [on |-> filtering, v |-> uid.v],
                                                q |-> <<>>,
                                                raw |-> <<page, per_page, user_id>>]])
    /\ UsersUnchanged /\ AdsUnchanged

list_advertisements_query(s, hdr) ==
    /\ At(s, "list", "query")
    /\ \E all_ads \in OrderByCreatedDesc(ads, Filtered(ads, reqs[s].params.user_id)) :
          Finish(s, ListResponse(reqs[s], ads, all_ads, hdr))
    /\ UsersUnchanged /\ AdsUnchanged

get_advertisement_start(s, ad_id) ==
    /\ Arrives(s)
    /\ Suspend(s, [SessionEnter(Idle) EXCEPT !.kind = "get", !.pc = "query", !.ad_id = ad_id,
                               !.late = (ad_id \in deleted204)])
    /\ UsersUnchanged /\ AdsUnchanged

get_advertisement_query(s, hdr, format_param, accept_header) ==
    /\ At(s, "get", "query")
    /\ Finish(s, GetResponse(reqs[s], ads, hdr, format_param, accept_header))
    /\ UsersUnchanged /\ AdsUnchanged

search_advertisements_start(s, query_text, format_param, accept_header) ==
    /\ Arrives(s)
    /\ LET r == [SessionEnter(Idle) EXCEPT !.kind = "search", !.params.q = query_text]
       IN IF query_text = <<>>
          THEN Finish(s, error_middleware(r, "start", HttpError(400, "search query is required")))
          ELSE Suspend(s, [r EXCEPT !.pc = "query",
                                    !.params.show_html = ShowHtml(format_param, accept_header),
                                    !.params.negotiation = <<format_param, accept_header>>])
    /\ UsersUnchanged /\ AdsUnchanged

search_advertisements_query(s, hdr) ==
    /\ At(s, "search", "query")
    /\ \E found \in OrderByCreatedDesc(ads, SearchMatches(ads, reqs[s].params.q)) :
          Finish(s, SearchResponse(reqs[s], ads, found, hdr))
    /\ UsersUnchanged /\ AdsUnchanged

(***************************************************************************)
(* What clients send.  A token with a good signature names a registered    *)
(* user: only create_jwt_token signs.                                      *)
(***************************************************************************)
BadHeaders ==
    {NoHeader, HBasic, HBare, HLower(GoodToken(1)), HBearer(ForgedToken(1)),
     HBearer(ForgedExpiredToken(1))}
    \cup {HBearer(ExpiredToken(u)) : u \in DOMAIN users}

Headers == BadHeaders \cup {HBearer(GoodToken(u)) : u \in DOMAIN users}

AdIds == 1..MaxAds

CreateBodies ==
    {BadJson, NonObject,
     Obj(JStr(T_Bike), JStr(D_Bikes), Absent, Absent),
     Obj(JStr(T_Car), JStr(D_Bikes), JStr(O_Ann), Absent),
     Obj(JStr(T_Max), JStr(D_Car), JStr(O_Ann), Absent),
     Obj(JStr(T_Short), JStr(D_Bikes), JStr(O_Ann), Absent),
     Obj(JStr(T_Long), JStr(D_Short), JStr(O_Ann), Absent),
     Obj(JStr(T_Car), JStr(D_Bikes), JStr(O_Short), Absent),
     Obj(JNull, JStr(D_Bikes), JStr(O_Ann), Absent)}

UpdateBodies ==
    {BadJson, NonObject,
     Obj(Absent, Absent, Absent, Absent),
     Obj(JStr(T_Bike), JStr(D_Car), Absent, Absent),
     Obj(JStr(T_Car), JStr(D_Bikes), JStr(O_Ann), JDate(0)),
     Obj(JNull, Absent, Absent, Absent),
     Obj(JStr(T_Short), Absent, Absent, Absent),
     Obj(JStr(T_Long), JStr(D_Short), Absent, Absent),
     Obj(Absent, Absent, JStr(O_Short), Absent),
     Obj(Absent, Absent, Absent, JStr(T_Short))}

RegisterBodies ==
    {BadJson, Credentials(JStr(""), JStr("pw123456")), Credentials(JStr("a@x.com"), Absent)}
    \cup {Credentials(JStr(e), JStr("pw123456")) : e \in {"a@x.com", "b@x.com"}}

LoginBodies ==
    {BadJson, Credentials(JStr("a@x.com"), JStr("wrong")),
     Credentials(JStr("a@x.com"), JStr("pw123456")),
     Credentials(JStr("b@x.com"), JStr("pw123456"))}

\* the format parameter and the Accept header
Negotiations ==
    {<<<<>>, <<>>>>, <<F_Html, <<>>>>, <<F_Html, A_Json>>, <<F_HtmlUpper, A_Json>>,
     <<F_Json, A_Html>>, <<<<>>, A_Html>>, <<<<>>, A_HtmlMixed>>, <<<<>>, A_HtmlAndJson>>}
ReadNegotiations == {<<<<>>, <<>>>>, <<F_Html, <<>>>>}
PageValues == {Absent, QJunk} \cup {QInt(n) : n \in -1..MaxReadAds}
PerPageValues == {Absent, QJunk} \cup {QInt(n) : n \in -1..2}
UserIdValues == {Absent, QEmpty, QJunk} \cup {QInt(n) : n \in 1..(MaxUsers + 1)}

(***************************************************************************)
(* The response goes out before the event loop runs another region.        *)
(***************************************************************************)
send_response ==
    /\ resp # NoResp
    /\ resp' = NoResp
    /\ UNCHANGED reqs
    /\ UsersUnchanged /\ AdsUnchanged

(***************************************************************************)
(* Spec: the advertisement handlers, for two registered users whose        *)
(* requests the event loop interleaves at the awaits.                      *)
(***************************************************************************)
TwoUsers ==
    <<UserRow("a@x.com", set_password("pw123456")),
      UserRow("b@x.com", set_password("pw123456"))>>

Init ==
    /\ users = TwoUsers
    /\ userSeq = 2
    /\ ads = <<>>
    /\ adSeq = 0
    /\ now = 1
    /\ reqs = [s \in Slots |-> Idle]
    /\ resp = NoResp
    /\ owner0 = <<>>
    /\ created0 = <<>>
    /\ deleted204 = {}

Next ==
    \/ send_response
    \/ \E s \in Slots :
        \/ adSeq + InFlight("create") < MaxAds
              /\ \E hdr \in Headers : create_advertisement_auth(s, hdr)
        \/ \E body \in CreateBodies : create_advertisement_body(s, body)
        \/ create_advertisement_commit(s)
        \/ \E hdr \in Headers, ad_id \in AdIds : update_advertisement_auth(s, hdr, ad_id)
        \/ \E body \in UpdateBodies : update_advertisement_body(s, body)
        \/ update_advertisement_query(s)
        \/ update_advertisement_commit(s)
        \/ \E hdr \in Headers, ad_id \in AdIds : delete_advertisement_auth(s, hdr, ad_id)
        \/ delete_advertisement_query(s)
        \/ delete_advertisement_commit(s)
        \/ list_advertisements_start(s, <<>>, <<>>, Absent, Absent, Absent)
        \/ \E hdr \in Headers : list_advertisements_query(s, hdr)
        \/ \E ad_id \in AdIds : get_advertisement_start(s, ad_id)
        \/ \E hdr \in Headers : get_advertisement_query(s, hdr, <<>>, <<>>)
        \/ search_advertisements_start(s, <<"c", "A", "r">>, <<>>, <<>>)
        \/ \E hdr \in Headers : search_advertisements_query(s, hdr)

Spec == Init /\ [][Next]_vars

(***************************************************************************)
(* SpecFaults: every handler, one registered user, with the faults of the  *)
(* database connection.                                                    *)
(***************************************************************************)
InitFaults ==
    /\ users = <<UserRow("a@x.com", set_password("pw123456"))>>
    /\ userSeq = 1
    /\ ads = <<>>
    /\ adSeq = 0
    /\ now = 1
    /\ reqs = [s \in Slots |-> Idle]
    /\ resp = NoResp
    /\ owner0 = <<>>
    /\ created0 = <<>>
    /\ deleted204 = {}

NextFaults ==
    \/ send_response
    \/ \E s \in Slots :
        \/ adSeq + InFlight("create") < MaxAds
              /\ \E hdr \in {NoHeader, HBearer(GoodToken(1)), HBearer(GoodToken(2))} :
                    create_advertisement_auth(s, hdr)
        \/ \E body \in {BadJson, NonObject,
                         Obj(JStr(T_Bike), JStr(D_Bikes), JStr(O_Ann), Absent)} :
              create_advertisement_body(s, body)
        \/ create_advertisement_commit(s)
        \/ \E hdr \in {NoHeader, HBearer(GoodToken(1))}, ad_id \in AdIds :
              update_advertisement_auth(s, hdr, ad_id)
        \/ \E body \in {BadJson, Obj(JStr(T_Car), Absent, Absent, Absent),
                         Obj(JNull, Absent, Absent, Absent)} :
              update_advertisement_body(s, body)
        \/ update_advertisement_query(s)
        \/ update_advertisement_commit(s)
        \/ \E hdr \in {NoHeader, HBearer(GoodToken(1))}, ad_id \in AdIds :
              delete_advertisement_auth(s, hdr, ad_id)
        \/ delete_advertisement_query(s)
        \/ delete_advertisement_commit(s)
        \/ userSeq + InFlight("register") < MaxUsers /\ register_user_start(s)
        \/ \E body \in {BadJson, Credentials(JStr("a@x.com"), JStr("pw123456")),
                         Credentials(JStr("b@x.com"), JStr("pw123456"))} :
              register_user_body(s, body)
        \/ register_user_query(s)
        \/ register_user_commit(s)
        \/ login_user_start(s)
        \/ \E body \in {BadJson, Credentials(JStr("a@x.com"), JStr("pw123456")),
                         Credentials(JStr("b@x.com"), JStr("pw123456"))} :
              login_user_body(s, body)
        \/ login_user_query(s)
        \/ \E per_page \in {Absent, QInt(0)} :
              list_advertisements_start(s, <<>>, <<>>, Absent, per_page, Absent)
        \/ list_advertisements_query(s, NoHeader)
        \/ \E ad_id \in AdIds : get_advertisement_start(s, ad_id)
        \/ get_advertisement_query(s, NoHeader, <<>>, <<>>)
        \/ search_advertisements_start(s, <<"c", "A", "r">>, <<>>, <<>>)
        \/ search_advertisements_query(s, NoHeader)
        \/ \E kind \in {"create", "update", "delete", "register", "login", "list", "get",
                          "search"} : session_middleware_fails(s, kind)
        \/ query_fails(s)
        \/ \E rollback_ok, flushed \in BOOLEAN : commit_fails(s, rollback_ok, flushed)

SpecFaults == InitFaults /\ [][NextFaults]_vars

(***************************************************************************)
(* SpecCancel: SpecFaults with requests whose task is cancelled at an      *)
(* await.                                                                  *)
(***************************************************************************)
NextCancel ==
    \/ NextFaults
    \/ \E s \in Slots, flushed \in BOOLEAN : cancelled(s, flushed)

SpecCancel == InitFaults /\ [][NextCancel]_vars

(***************************************************************************)
(* SpecUsers: register and login on the empty database of create_app and   *)
(* init_db, interleaved at the awaits.                                     *)
(***************************************************************************)
InitUsers ==
    /\ users = <<>>
    /\ userSeq = 0
    /\ ads = <<>>
    /\ adSeq = 0
    /\ now = 1
    /\ reqs = [s \in Slots |-> Idle]
    /\ resp = NoResp
    /\ owner0 = <<>>
    /\ created0 = <<>>
    /\ deleted204 = {}

NextUsers ==
    \/ send_response
    \/ \E s \in Slots :
        \/ userSeq + InFlight("register") < MaxUsers /\ register_user_start(s)
        \/ \E body \in RegisterBodies : register_user_body(s, body)
        \/ register_user_query(s)
        \/ register_user_commit(s)
        \/ login_user_start(s)
        \/ \E body \in LoginBodies : login_user_body(s, body)
        \/ login_user_query(s)

SpecUsers == InitUsers /\ [][NextUsers]_vars

(***************************************************************************)
(* SpecRead: the read handlers on a store of up to MaxReadAds              *)
(* advertisements, one request at a time.  The stores are those the two    *)
(* users can have built: ids in order of creation, created_at not          *)
(* decreasing with the id.                                                 *)
(***************************************************************************)
ReadTitle(i) == IF i % 2 = 1 THEN T_Bike ELSE T_Car
ReadDescription(i) == IF i % 2 = 1 THEN D_Bikes ELSE D_Car

ReadStores ==
    UNION {
        {[i \in 1..n |-> AdRow(ReadTitle(i), ReadDescription(i), ts[i], ow[i])] :
            ts \in {t \in [1..n -> 1..MaxTime] : \A i \in 1..(n - 1) : t[i] <= t[i + 1]},
            ow \in [1..n -> DOMAIN TwoUsers]}
        : n \in 0..MaxReadAds}

InitRead ==
    /\ users = TwoUsers
    /\ userSeq = 2
    /\ ads \in ReadStores
    /\ adSeq = Len(ads)
    /\ now = IF ads = <<>> THEN 1 ELSE ads[Len(ads)].created_at
    /\ reqs = [s \in Slots |-> Idle]
    /\ resp = NoResp
    /\ owner0 = [i \in DOMAIN ads |-> ads[i].user_id]
    /\ created0 = [i \in DOMAIN ads |-> ads[i].created_at]
    /\ deleted204 = {}

ReadHeaders ==
    {NoHeader, HBasic, HBearer(ForgedToken(1)), HBearer(ExpiredToken(1))}
    \cup {HBearer(GoodToken(u)) : u \in DOMAIN users}

NextRead ==
    \/ send_response
    \/ \E n \in ReadNegotiations, pg \in PageValues, pp \in PerPageValues, u \in UserIdValues :
          list_advertisements_start(1, n[1], n[2], pg, pp, u)
    \/ \E hdr \in ReadHeaders : list_advertisements_query(1, hdr)
    \/ \E ad_id \in 1..(MaxReadAds + 1) : get_advertisement_start(1, ad_id)
    \/ \E hdr \in ReadHeaders, n \in ReadNegotiations :
          get_advertisement_query(1, hdr, n[1], n[2])
    \/ \E q \in {<<>>, <<"c", "A", "r">>, <<"b", "i", "k", "e">>, <<"%">>,
                  <<"_", "a", "r">>, <<"z">>},
          n \in ReadNegotiations :
          search_advertisements_start(1, q, n[1], n[2])
    \/ \E hdr \in ReadHeaders : search_advertisements_query(1, hdr)

SpecRead == InitRead /\ [][NextRead]_vars

(***************************************************************************)
(* SpecFormat: the read handlers on a store of at most one advertisement,  *)
(* with every combination of format parameter and Accept header.           *)
(***************************************************************************)
InitFormat ==
    /\ InitRead
    /\ Len(ads) <= 1

NextFormat ==
    \/ send_response
    \/ \E n \in Negotiations, pg \in {Absent, QInt(2)} :
          list_advertisements_start(1, n[1], n[2], pg, Absent, Absent)
    \/ \E hdr \in {NoHeader, HBearer(GoodToken(1))} : list_advertisements_query(1, hdr)
    \/ \E ad_id \in 1..2 : get_advertisement_start(1, ad_id)
    \/ \E hdr \in {NoHeader, HBearer(GoodToken(1))}, n \in Negotiations :
          get_advertisement_query(1, hdr, n[1], n[2])
    \/ \E q \in {<<"b", "i", "k", "e">>, <<"z">>}, n \in Negotiations :
          search_advertisements_start(1, q, n[1], n[2])
    \/ \E hdr \in {NoHeader, HBearer(GoodToken(1))} : search_advertisements_query(1, hdr)

SpecFormat == InitFormat /\ [][NextFormat]_vars


(***************************************************************************)
(* The vocabulary of the properties, in the words of the specification.    *)
(***************************************************************************)
Mutations == {"create", "update", "delete"}
Reads == {"list", "get", "search"}

\* the header carries the unexpired token the service signed for a user
ValidToken(h) == \E u \in DOMAIN users : h = HBearer(GoodToken(u))
TokenUser(h) == h.words[2].uid

\* the header is absent or does not start with "Bearer "
NoBearer(h) == ~h.present \/ h.words = <<>> \/ h.words[1] # "Bearer" \/ Len(h.words) = 1

\* the header presents a bearer token that fails verification
FailingBearer(h) ==
    /\ ~NoBearer(h)
    /\ (~h.words[2].sig \/ h.words[2].expired)

\* a PATCH body every field of which is absent, null or within its limits
WithinLimits(v, lo, hi) ==
    v.t \in {"absent", "null"} \/ (v.t = "str" /\ Len(v.s) >= lo /\ Len(v.s) <= hi)

ValidPatchBody(b) ==
    /\ b.json = "object"
    /\ WithinLimits(b.title, 3, 200)
    /\ b.description.t \in {"absent", "null"}
       \/ (b.description.t = "str" /\ Len(b.description.s) >= 10)
    /\ WithinLimits(b.owner, 2, 100)
    /\ b.created_at.t \in {"absent", "null", "datetime"}

SetsNull(b) == b.title.t = "null" \/ b.description.t = "null"

SuccessOf(kind) == IF kind = "update" THEN 200 ELSE 204

C2_OnlyOwnerMutates ==
    [][/\ \A id \in DOMAIN ads :
            /\ id \notin DOMAIN ads' =>
                 /\ resp'.kind = "delete" /\ resp'.status = 204 /\ resp'.ad_id = id
                 /\ ValidToken(resp'.hdr) /\ TokenUser(resp'.hdr) = owner0[id]
            /\ (/\ id \in DOMAIN ads'
                /\ \/ ads'[id].title # ads[id].title
                   \/ ads'[id].description # ads[id].description) =>
                 /\ resp'.kind = "update" /\ resp'.status = 200 /\ resp'.ad_id = id
                 /\ ValidToken(resp'.hdr) /\ TokenUser(resp'.hdr) = owner0[id]
       /\ <<ads, users>>' # <<ads, users>> => resp'.status \in {200, 201, 204}
       /\ resp'.status \in {400, 401, 403, 404} => <<ads, users>>' = <<ads, users>>
      ]_vars

\* the owner's PATCH was answered 200 and the listing carries the new title
C2_Witness ==
    /\ resp.kind = "update" /\ resp.status = 200
    /\ resp.ad_id \in DOMAIN ads
    /\ TokenUser(resp.hdr) = ads[resp.ad_id].user_id
    /\ resp.body.title = JStr(T_Bike)
    /\ ads[resp.ad_id].title = T_Bike

(***************************************************************************)
(* C3: a create request with a valid token whose payload is {title,        *)
(* description}, title of 3..200 characters and description of at least 10 *)
(* characters, returns 201 with a new id, and GET of that id returns the   *)
(* same title and description with user_id the caller's id.                *)
(***************************************************************************)
C3_CreateRoundTrip ==
    (/\ resp.kind = "create"
     /\ ValidToken(resp.hdr)
     /\ resp.body.json = "object"
     /\ resp.body.title.t = "str" /\ Len(resp.body.title.s) \in 3..200
     /\ resp.body.description.t = "str" /\ Len(resp.body.description.s) >= 10
     /\ resp.body.owner = Absent /\ resp.body.created_at = Absent)
    => /\ resp.status = 201
       /\ resp.data.id \in DOMAIN ads
       /\ LET got == GetResponse([SessionEnter(Idle) EXCEPT !.kind = "get", !.ad_id = resp.data.id],
                                 ads, NoHeader, <<>>, <<>>)
          IN /\ got.status = 200
             /\ got.data.title = resp.body.title.s
             /\ got.data.description = resp.body.description.s
             /\ got.data.user_id = TokenUser(resp.hdr)

(***************************************************************************)
(* C4: a create, update or delete request whose Authorization header is    *)
(* absent or does not start with "Bearer " ends in 401 with the message    *)
(* "Authorization required", before anything else of the request is read,  *)
(* and the store is unchanged.                                             *)
(***************************************************************************)
C4_AuthorizationRequired ==
    [][(resp' # NoResp /\ resp'.kind \in Mutations /\ NoBearer(resp'.hdr))
       => /\ resp'.status = 401
          /\ resp'.message = "Authorization required"
          /\ resp'.stage = "auth"
          /\ <<ads, users>>' = <<ads, users>>
      ]_vars

\* a PATCH whose header reads "bearer <valid token>" was answered 401 while
\* the listing it names is in the store
C4_Witness ==
    /\ resp.kind = "update" /\ resp.status = 401
    /\ resp.hdr = HLower(GoodToken(1))
    /\ resp.ad_id \in DOMAIN ads


(***************************************************************************)
(* C5, as the specification words it: whenever a request presents a bearer *)
(* token that fails verification the request ends in 401, with the message *)
(* "Token expired" for an expired token and "Invalid token" for any other  *)
(* failure.                                                                *)
(***************************************************************************)
C5_FailingTokenAsWritten ==
    (resp # NoResp /\ FailingBearer(resp.hdr))
    => /\ resp.status = 401
       /\ resp.message = IF resp.hdr.words[2].sig THEN "Token expired" ELSE "Invalid token"

(***************************************************************************)
(* C5: whenever a create, update or delete request presents a bearer token *)
(* that fails verification, the request ends in 401 before anything else   *)
(* of it is read, with the message "Token expired" for an expired token    *)
(* and "Invalid token" for any other failure, and the store is unchanged.  *)
(***************************************************************************)
C5_FailingToken ==
    [][(resp' # NoResp /\ resp'.kind \in Mutations /\ FailingBearer(resp'.hdr))
       => /\ resp'.status = 401
          /\ resp'.message =
                IF resp'.hdr.words[2].sig THEN "Token expired" ELSE "Invalid token"
          /\ resp'.stage = "auth"
          /\ <<ads, users>>' = <<ads, users>>
      ]_vars

\* the owner's DELETE with an expired token was answered 401 "Token expired"
\* and the listing is still in the store
C5_Witness ==
    /\ resp.kind = "delete" /\ resp.status = 401 /\ resp.message = "Token expired"
    /\ resp.ad_id \in DOMAIN ads
    /\ resp.hdr = HBearer(ExpiredToken(ads[resp.ad_id].user_id))

\* the items a read response shows
ItemsOf(r) ==
    IF r.kind = "list" THEN r.data.advertisements
    ELSE IF r.kind = "search" THEN r.data.results
    ELSE <<r.data>>

NotShown(r, gone) ==
    (r.kind \in {"list", "search"} /\ r.status = 200)
    => \A i \in DOMAIN ItemsOf(r) : ItemsOf(r)[i].id \notin gone

C7_OwnerAndCreatedAtFixed ==
    \A id \in DOMAIN ads :
        /\ ads[id].user_id = owner0[id]
        /\ ads[id].created_at = created0[id]

\* a PATCH whose body carried owner and created_at was answered 200
C7_Witness ==
    /\ resp.kind = "update" /\ resp.status = 200
    /\ resp.body.json = "object"
    /\ resp.body.owner.t = "str" /\ resp.body.created_at.t = "datetime"
    /\ resp.ad_id \in DOMAIN ads
    /\ resp.body.created_at.ts # ads[resp.ad_id].created_at


(***************************************************************************)
(* The vocabulary of the properties of the read handlers.                  *)
(***************************************************************************)
\* the caller identities: anonymous, or the valid token of a user
Callers == {NoHeader} \cup {HBearer(GoodToken(u)) : u \in DOMAIN users}

\* the request a response answers
RequestOf(r) ==
    [SessionEnter(Idle) EXCEPT !.kind = r.kind, !.ad_id = r.ad_id, !.params = r.params,
                               !.late = r.late,
                               !.events = @ \o Pipeline(r.kind, "idle")]

\* a response without what tells the caller which items are the caller's
WithoutFlag(item) == [f \in DOMAIN item \ {"is_owner", "badge"} |-> item[f]]

Seen(r) ==
    [status |-> r.status, message |-> r.message, format |-> r.format,
     items |-> IF r.status = 200
               THEN [i \in DOMAIN ItemsOf(r) |-> WithoutFlag(ItemsOf(r)[i])] ELSE <<>>,
     total |-> IF r.status # 200 THEN 0
               ELSE IF r.kind = "list" THEN r.data.total
               ELSE IF r.kind = "search" THEN r.data.count ELSE 1]

\* the responses to the request of r, had the caller been h and the
\* database returned the same rows in the same order
SameRowsFor(r, h) ==
    IF r.kind = "list"
    THEN {ListResponse(RequestOf(r), ads, o, h) :
            o \in {a \in OrderByCreatedDesc(ads, Filtered(ads, r.params.user_id)) :
                     ListResponse(RequestOf(r), ads, a, r.hdr) = r}}
    ELSE IF r.kind = "search"
    THEN {SearchResponse(RequestOf(r), ads, o, h) :
            o \in {a \in OrderByCreatedDesc(ads, SearchMatches(ads, r.params.q)) :
                     SearchResponse(RequestOf(r), ads, a, r.hdr) = r}}
    ELSE {GetResponse(RequestOf(r), ads, h, r.params.negotiation[1], r.params.negotiation[2])}

(***************************************************************************)
(* C8: for list, get and search, a request and the same request by any     *)
(* other caller (anonymous, or the valid token of any user) on the same    *)
(* store, the database returning the same rows, get the same status and    *)
(* the same items in the same order: the responses differ at most in the   *)
(* is_owner flags.                                                         *)
(***************************************************************************)
C8_CallerIndependence ==
    (resp.kind \in Reads /\ resp.stage = "query" /\ resp.hdr \in Callers)
    => \A h \in Callers :
          /\ SameRowsFor(resp, h) # {}
          /\ \A other \in SameRowsFor(resp, h) : Seen(other) = Seen(resp)

\* user 1 listed a store where one listing is user 1's and one is not
C8_Witness ==
    /\ resp.kind = "list" /\ resp.status = 200 /\ resp.format = "json"
    /\ resp.hdr = HBearer(GoodToken(1))
    /\ \E i, j \in DOMAIN resp.data.advertisements :
          /\ resp.data.advertisements[i].is_owner
          /\ ~resp.data.advertisements[j].is_owner
    /\ Seen(resp) \in {Seen(o) : o \in SameRowsFor(resp, NoHeader)}

(***************************************************************************)
(* C9: in every JSON response of list, get and search, an item has         *)
(* is_owner true exactly when the request carried the valid token of a     *)
(* user and that user is the item's owner; with no token every item has    *)
(* is_owner false.                                                         *)
(***************************************************************************)
C9_IsOwnerExact ==
    (resp.kind \in Reads /\ resp.status = 200 /\ resp.format = "json")
    => \A i \in DOMAIN ItemsOf(resp) :
          LET item == ItemsOf(resp)[i]
          IN /\ item.user_id = ads[item.id].user_id
             /\ item.is_owner =
                   (ValidToken(resp.hdr) /\ TokenUser(resp.hdr) = item.user_id)
             /\ resp.hdr = NoHeader => ~item.is_owner

\* a search by user 2 found a listing of user 2 and a listing of user 1
C9_Witness ==
    /\ resp.kind = "search" /\ resp.status = 200 /\ resp.format = "json"
    /\ resp.hdr = HBearer(GoodToken(2))
    /\ \E i, j \in DOMAIN resp.data.results :
          /\ resp.data.results[i].is_owner /\ resp.data.results[i].user_id = 2
          /\ ~resp.data.results[j].is_owner /\ resp.data.results[j].user_id = 1

RECURSIVE Concatenated(_, _)
Concatenated(windows, n) ==
    IF n = 0 THEN <<>> ELSE Concatenated(windows, n - 1) \o windows[n]

(***************************************************************************)
(* C10: for any store and any per_page, the windows that requests for      *)
(* page = 1..pages return, with no writes in between, have lengths that    *)
(* sum to total, are pairwise disjoint, and concatenated are ordered by    *)
(* descending creation time.                                               *)
(***************************************************************************)
C10_PagesPartition ==
    (resp.kind = "list" /\ resp.status = 200)
    => LET q == resp.params
           rows == OrderByCreatedDesc(ads, Filtered(ads, q.user_id))
           pages == resp.data.pages
       IN \A returned \in [1..pages -> rows] :
             LET windows == [p \in 1..pages |-> Window(returned[p], p, q.per_page)]
                 all == Concatenated(windows, IF pages > 0 THEN pages ELSE 0)
             IN /\ Len(all) = resp.data.total
                /\ \A i, j \in DOMAIN all : i < j =>
                      /\ all[i] # all[j]
                      /\ ads[all[i]].created_at >= ads[all[j]].created_at


(***************************************************************************)
(* The order the specification requires: creation time descending and,     *)
(* among equal creation times, identifier descending.                      *)
(***************************************************************************)
Newer(table, i, j) ==
    \/ table[i].created_at > table[j].created_at
    \/ table[i].created_at = table[j].created_at /\ i > j

\* the rows S of the table in the required order
Sorted(table, S) ==
    CHOOSE o \in Perms(S) : \A i, j \in DOMAIN o : i < j => Newer(table, o[i], o[j])

Ids(items) == [i \in DOMAIN items |-> items[i].id]

\* the elements of seq at the 0-based positions lo .. hi - 1
Positions(seq, lo, hi) ==
    LET S == {k \in 1..Len(seq) : k - 1 >= lo /\ k - 1 < hi}
    IN [i \in 1..Cardinality(S) |-> seq[lo + i]]

\* ceil(a / b) for b # 0
Ceil(a, b) == -(PyFloorDiv(-a, b))

(***************************************************************************)
(* C11: for every integer page outside 1..pages (0, negative, above pages) *)
(* the list endpoint returns 200 with an empty window.  Stated for         *)
(* per_page >= 1, where pages is the number of pages there are.            *)
(***************************************************************************)
C11_OutOfRangePagesEmpty ==
    (/\ resp.kind = "list" /\ resp.stage = "query"
     /\ resp.params.per_page >= 1
     /\ resp.params.page \notin
           1..Ceil(Cardinality(Filtered(ads, resp.params.user_id)), resp.params.per_page))
    => /\ resp.status = 200
       /\ resp.data.advertisements = <<>>

(***************************************************************************)
(* C12: for every integer page and per_page the list endpoint does not     *)
(* reject with 400, the response reports total = size of the filtered set, *)
(* pages = ceil(total / per_page), and its items are exactly the elements  *)
(* at positions [(page-1)*per_page, (page-1)*per_page + per_page) of the   *)
(* sorted filtered set.                                                    *)
(***************************************************************************)
C12_PaginationNumbers ==
    (resp.kind = "list" /\ resp.status # 400)
    => LET q == resp.params
           S == Filtered(ads, q.user_id)
       IN /\ resp.status = 200
          /\ resp.data.total = Cardinality(S)
          /\ resp.data.pages = Ceil(Cardinality(S), q.per_page)
          /\ Ids(resp.data.advertisements) =
                Positions(Sorted(ads, S), (q.page - 1) * q.per_page,
                          (q.page - 1) * q.per_page + q.per_page)

(***************************************************************************)
(* C13: list and search results come in one total order: creation time     *)
(* descending and, among listings of equal creation time, identifier       *)
(* descending, so that the same request on an unchanged store returns the  *)
(* same order.                                                             *)
(***************************************************************************)
C13_TotalOrder ==
    (resp.kind \in {"list", "search"} /\ resp.status = 200)
    => \A i, j \in DOMAIN ItemsOf(resp) :
          i < j => Newer(ads, ItemsOf(resp)[i].id, ItemsOf(resp)[j].id)

\* text contains q as a substring, letter case apart
Contains(text, q) ==
    \E k \in 1..(Len(text) - Len(q) + 1) :
        ToLower(SubSeq(text, k, k + Len(q) - 1)) = ToLower(q)

(***************************************************************************)
(* C14: for every non-empty query string q, '%' and '_' included, search   *)
(* returns exactly the listings whose title or description contains q as a *)
(* case-insensitive substring, with count equal to the number of results.  *)
(***************************************************************************)
C14_SearchExact ==
    (resp.kind = "search" /\ resp.params.q # <<>>)
    => /\ resp.status = 200
       /\ {resp.data.results[i].id : i \in DOMAIN resp.data.results} =
             {id \in DOMAIN ads : \/ Contains(ads[id].title, resp.params.q)
                                  \/ Contains(ads[id].description, resp.params.q)}
       /\ resp.data.count = Len(resp.data.results)
       /\ \A i, j \in DOMAIN resp.data.results :
             i # j => resp.data.results[i].id # resp.data.results[j].id


\* the rendering the specification names for a format parameter and an
\* Accept header, both taken as they were sent
HtmlAsWritten(n) ==
    \/ n[1] = F_Html
    \/ Substring(A_Html, n[2]) /\ ~Substring(A_Json, n[2])

\* the same with letter case ignored
HtmlIgnoringCase(n) == HtmlAsWritten(<<ToLower(n[1]), ToLower(n[2])>>)

(***************************************************************************)
(* C15, as the specification words it: on list, get and search the         *)
(* rendering is HTML exactly when the parameter format equals 'html', or   *)
(* else the Accept header contains 'text/html' and not 'application/json'. *)
(***************************************************************************)
C15_FormatAsWritten ==
    (resp.kind \in Reads /\ resp.status = 200)
    => (resp.format = "html") = HtmlAsWritten(resp.params.negotiation)

(***************************************************************************)
(* C15: on list, get and search alike the rendering is HTML exactly when   *)
(* the parameter format equals 'html', or else the Accept header contains  *)
(* 'text/html' and not 'application/json', letter case ignored in both; in *)
(* every other case it is JSON.  format=html wins over an Accept header    *)
(* that names application/json.                                            *)
(***************************************************************************)
C15_Format ==
    (resp.kind \in Reads /\ resp.status = 200)
    => /\ resp.format \in {"html", "json"}
       /\ (resp.format = "html") = HtmlIgnoringCase(resp.params.negotiation)

\* a search with format=html and Accept: application/json was rendered as HTML
C15_Witness ==
    /\ resp.kind = "search" /\ resp.status = 200
    /\ resp.params.negotiation = <<F_Html, A_Json>>
    /\ resp.format = "html"
    /\ resp.data.count = 1


\* the users that have the email
WithEmail(table, email) == {i \in DOMAIN table : table[i].email = email}

(***************************************************************************)
(* C16: under any interleaving of register requests no two stored users    *)
(* share an email.  A register for an email that exists, or that loses the *)
(* race with a concurrent register of the same email, returns 409 and      *)
(* creates no user; a register that returns 200 creates the one user of    *)
(* its email, so of the racing requests exactly one succeeds.              *)
(***************************************************************************)
C16_UniqueEmail ==
    [][/\ \A i, j \in DOMAIN users' : i # j => users'[i].email # users'[j].email
       /\ users' # users => resp'.kind = "register" /\ resp'.status = 200
       /\ (resp'.kind = "register" /\ resp'.stage \in {"query", "commit"}) =>
             LET email == resp'.body.email.s
             IN /\ resp'.status \in {200, 409}
                /\ WithEmail(users, email) # {} => resp'.status = 409
                /\ resp'.status = 409 =>
                      /\ users' = users
                      /\ Cardinality(WithEmail(users, email)) = 1
                /\ resp'.status = 200 =>
                      /\ WithEmail(users, email) = {}
                      /\ WithEmail(users', email) = {resp'.data.user_id}
                      /\ DOMAIN users' = DOMAIN users \cup {resp'.data.user_id}
                      /\ \A i \in DOMAIN users : users'[i] = users[i]
      ]_vars

\* a register passed the check for an existing user and lost the race at
\* the commit: 409, and the email has its one user
C16_Witness ==
    /\ resp.kind = "register" /\ resp.status = 409 /\ resp.stage = "commit"
    /\ Cardinality(WithEmail(users, resp.body.email.s)) = 1

\* the statuses the handlers and error_middleware answer with
HttpStatuses == {200, 201, 204, 400, 401, 403, 404, 409, 500}

\* a step that answers a request
Answers == resp = NoResp /\ resp' # NoResp

(***************************************************************************)
(* C17: every failing request produces exactly one response.  An HttpError *)
(* gives its own status and message, a body that fails JSON parsing 400    *)
(* "Invalid JSON", any other fault 500 with the fault's description; when  *)
(* the session cannot be acquired the answer is 500 and the handler is     *)
(* never run.  No exception escapes: every request that ends is answered   *)
(* with an HTTP status, and an answer ends exactly one request.            *)
(***************************************************************************)
C17_FailuresAnswered ==
    [][/\ \A s \in Slots : (reqs[s].pc # "idle" /\ reqs'[s].pc = "idle") => Answers
       /\ Answers =>
             LET e == resp'.raised
             IN /\ Cardinality({s \in Slots : reqs'[s] # reqs[s]}) <= 1
                /\ \A s \in Slots : reqs'[s] # reqs[s] => reqs'[s] = Idle
                /\ resp'.status \in HttpStatuses
                /\ (e # NoRaise) = (resp'.status >= 400)
                /\ (e # NoRaise /\ e.exc = "HttpError") =>
                      /\ resp'.status = e.status
                      /\ resp'.message = e.message
                      /\ resp'.errors = e.errors
                /\ (resp'.stage = "body" /\ resp'.body = BadJson) =>
                      resp'.status = 400 /\ resp'.message = "Invalid JSON"
                /\ (e # NoRaise /\ e.exc # "HttpError") =>
                      /\ resp'.status = IF e.exc = "JSONDecodeError" THEN 400 ELSE 500
                      /\ e.exc # "JSONDecodeError" => resp'.message = e.message
                /\ resp'.stage = "session" =>
                      /\ resp'.status = 500
                      /\ resp'.sessions = 0
                      /\ \A s \in Slots : reqs'[s] = reqs[s]
      ]_vars

\* a fault that no handler catches was answered 500 with its description
C17_Witness ==
    /\ resp.stage = "query" /\ resp.kind = "update"
    /\ resp.raised = SQLAlchemyError("OperationalError")
    /\ resp.status = 500 /\ resp.message = SQLAlchemyError("OperationalError").message

SessionEvents == {"SessionAcquired", "SessionReleased"}

\* the events of a request that are in S, in their order
Only(events, S) == SelectSeq(events, LAMBDA e : e \in S)

(***************************************************************************)
(* C18: a request that acquires a session acquires exactly one, and the    *)
(* session is released on every way out of the handler (a response, an     *)
(* HttpError, a JSON parse error, any other exception) before the response *)
(* is sent: no request is answered with its session open.                  *)
(***************************************************************************)
C18_SessionReleased ==
    /\ \A s \in Slots : reqs[s].pc # "idle" =>
          /\ reqs[s].session = "open" /\ reqs[s].sessions = 1
          /\ Only(reqs[s].events, SessionEvents) = <<"SessionAcquired">>
    /\ resp # NoResp =>
          /\ resp.session # "open"
          /\ resp.sessions \in {0, 1}
          /\ resp.sessions = 1 =>
                /\ resp.session = "closed"
                /\ Only(resp.events, SessionEvents) = <<"SessionAcquired", "SessionReleased">>
          /\ resp.sessions = 0 =>
                /\ resp.session = "none"
                /\ \A i \in 1..Len(resp.events) :
                      resp.events[i] \notin {"SessionAcquired", "SessionReleased"}

\* an exception that is not an HttpError left the handler, and the session
\* it had acquired was closed before error_middleware answered
C18_Witness ==
    /\ resp.raised # NoRaise /\ resp.raised.exc = "TypeError"
    /\ resp.session = "closed"
    /\ Only(resp.events, SessionEvents \cup {"ErrorTranslated"})
          = <<"SessionAcquired", "SessionReleased", "ErrorTranslated">>

\* the answer of update_advertisement to the request of r, run in one piece
\* on table
PatchAgain(r, table) ==
    LET u == get_user_id_from_token(r.hdr)
        v == validate("update", r.body)
        got == session_get(table, r.ad_id)
        a == authorize_owner(got, u.user_id, "update")
        f == FlushUpdate(table, r.ad_id, UpdateWrites(got.row, v.data))
    IN IF ~u.ok THEN [status |-> u.status, table |-> table]
       ELSE IF r.body = BadJson THEN [status |-> 400, table |-> table]
       ELSE IF ~v.ok THEN [status |-> error_middleware(r, "body", v).status, table |-> table]
       ELSE IF ~a.ok THEN [status |-> a.status, table |-> table]
       ELSE [status |-> CASE f.outcome = "ok" -> 200
                          [] f.outcome = "integrity" -> 409
                          [] f.outcome = "stale" -> 500,
             table |-> f.table]

(***************************************************************************)
(* C19 as written: a PATCH that is applied twice in a row leaves the       *)
(* listing in the state the first application left it in, and the second   *)
(* call returns 200.                                                       *)
(***************************************************************************)
C19_PatchIdempotentAsWritten ==
    (resp.kind = "update" /\ resp.status = 200)
    => /\ PatchAgain(resp, ads).status = 200
       /\ PatchAgain(resp, ads).table = ads

\* the listing that the update in slot s is about to commit still exists,
\* and the columns the flush writes are the ones a fresh read would find
\* dirty: no other request has deleted the listing, or changed a field the
\* PATCH sets, since the call read it
Undisturbed(s) ==
    /\ reqs[s].ad_id \in DOMAIN ads
    /\ DOMAIN reqs[s].data =
          DirtyColumns(ads[reqs[s].ad_id], validate("update", reqs[s].body).data)

(***************************************************************************)
(* C19: a PATCH that is applied twice in a row, no other request having    *)
(* changed or deleted the listing while the first call was in flight,      *)
(* leaves the listing in the state the first application left it in, and   *)
(* the second call returns 200.                                            *)
(***************************************************************************)
C19_PatchIdempotent ==
    [][\A s \in Slots :
          (/\ Answers
           /\ reqs[s].kind = "update" /\ reqs[s].pc = "commit" /\ reqs'[s].pc = "idle"
           /\ resp'.status = 200
           /\ Undisturbed(s))
          => /\ PatchAgain(resp', ads').status = 200
             /\ PatchAgain(resp', ads').table = ads'
      ]_vars

\* a PATCH that changed the title was answered 200
C19_Witness ==
    /\ resp.kind = "update" /\ resp.status = 200
    /\ resp.body.title = JStr(T_Bike)
    /\ resp.ad_id \in DOMAIN ads /\ ads[resp.ad_id].title = T_Bike

\* the exception session.commit() raised
FaultOf(e) == IF e.context # "none" THEN e.context ELSE e.exc

(***************************************************************************)
(* C20: whenever the commit of a create, update, delete or register fails, *)
(* the store after the request equals the store before it, and the answer  *)
(* is 409 for an integrity violation and 500 for any other persistence     *)
(* fault.                                                                  *)
(***************************************************************************)
C20_FailedCommitWritesNothing ==
    [][(/\ Answers
        /\ resp'.kind \in {"create", "update", "delete", "register"}
        /\ resp'.stage = "commit"
        /\ resp'.raised # NoRaise)
       => /\ ads' = ads
          /\ users' = users
          /\ resp'.status = IF FaultOf(resp'.raised) = "IntegrityError" THEN 409 ELSE 500
      ]_vars

\* the commit of a register failed on the connection, which register_user
\* does not catch: 500, and no user was added
C20_Witness ==
    /\ resp.kind = "register" /\ resp.stage = "commit" /\ resp.status = 500
    /\ FaultOf(resp.raised) = "OperationalError"
    /\ resp.body.email.s = "b@x.com"
    /\ WithEmail(users, "b@x.com") = {}

(***************************************************************************)
(* C21: in every reachable state of the store every listing has a title of *)
(* 3 to 200 characters, a description of at least 10 characters and an     *)
(* owner identifier that refers to an existing user; no create and no      *)
(* PATCH, a PATCH that sets title or description to null included, stores  *)
(* a listing that violates this.                                           *)
(***************************************************************************)
C21_ListingsWellFormed ==
    \A id \in DOMAIN ads :
        /\ Len(ads[id].title) \in TitleMinLen..TitleMaxLen
        /\ Len(ads[id].description) >= DescriptionMinLen
        /\ ads[id].user_id \in DOMAIN users

\* a PATCH that sets the title to null passed validation and was refused at
\* the commit, the listing keeping its title
C21_Witness ==
    /\ resp.kind = "update" /\ resp.stage = "commit" /\ resp.status = 409
    /\ resp.body.title = JNull
    /\ resp.ad_id \in DOMAIN ads
    /\ Len(ads[resp.ad_id].title) >= TitleMinLen

\* the item carries the owner-badge indication
Badge(item) == "badge" \in DOMAIN item /\ item.badge

(***************************************************************************)
(* C22: in the HTML rendering of list, get and search, a listing carries   *)
(* the owner-badge indication exactly when its is_owner is true, that is   *)
(* when the caller resolved from the token is its owner.                   *)
(***************************************************************************)
C22_OwnerBadge ==
    (resp.kind \in Reads /\ resp.status = 200 /\ resp.format = "html")
    => \A i \in DOMAIN ItemsOf(resp) :
          LET item == ItemsOf(resp)[i]
          IN Badge(item) = is_owner_of(current_user_id_of(resp.hdr), item.user_id)

\* the users whose email and password are the ones of the body
Matching(table, body) ==
    {i \in DOMAIN table : /\ table[i].email = body.email.s
                          /\ table[i].password_hash = set_password(body.password.s)}

(***************************************************************************)
(* C23: every token returned by a successful register or login, presented  *)
(* as a bearer token before its expiry, resolves to exactly the user_id    *)
(* returned alongside it, the user of the credentials; login returns 401   *)
(* "Invalid credentials" both for an unknown email and for a wrong         *)
(* password, and issues no token.                                          *)
(***************************************************************************)
C23_TokenRoundTrip ==
    /\ (resp.kind \in {"register", "login"} /\ resp.status = 200) =>
          LET u == get_user_id_from_token(HBearer(resp.data.token))
          IN /\ u.ok /\ u.user_id = resp.data.user_id
             /\ Matching(users, resp.body) = {resp.data.user_id}
    /\ (resp.kind = "login" /\ resp.stage = "query") =>
          IF Matching(users, resp.body) # {} THEN resp.status = 200
          ELSE /\ resp.status = 401 /\ resp.message = "Invalid credentials"
               /\ resp.data = NoData

\* the second user logged in and got the token of user 2
C23_Witness ==
    /\ resp.kind = "login" /\ resp.status = 200
    /\ resp.data.user_id = 2
    /\ get_user_id_from_token(HBearer(resp.data.token)).user_id = 2

\* the value of a query parameter is there and is not an integer
NonInteger(v) == v.t \notin {"absent", "int"}

\* the listings of owner k
OwnedBy(table, k) == {i \in DOMAIN table : table[i].user_id = k}

(***************************************************************************)
(* C24: a list request with user_id=k returns exactly the listings whose   *)
(* owner identifier is k (all of them on the default page, and none of     *)
(* another owner on any page), with total counting only those; a           *)
(* non-integer user_id, page or per_page returns 400 and no listing data.  *)
(***************************************************************************)
C24_OwnerFilter ==
    (resp.kind = "list" /\ resp.stage \in {"start", "query"}) =>
       LET page == resp.params.raw[1]
           per_page == resp.params.raw[2]
           user_id == resp.params.raw[3]
       IN /\ (NonInteger(page) \/ NonInteger(per_page) \/ NonInteger(user_id)) =>
                resp.status = 400 /\ resp.data = NoData
          /\ (resp.status = 200 /\ user_id.t = "int") =>
                /\ resp.data.total = Cardinality(OwnedBy(ads, user_id.v))
                /\ \A i \in DOMAIN ItemsOf(resp) :
                      ItemsOf(resp)[i].id \in OwnedBy(ads, user_id.v)
                /\ (page = Absent /\ per_page = Absent) =>
                      {ItemsOf(resp)[i].id : i \in DOMAIN ItemsOf(resp)}
                         = OwnedBy(ads, user_id.v)

\* the places of an event in the events of a request
Places(events, e) == {i \in DOMAIN events : events[i] = e}

\* the response of a failed request is sent
RespondsToFailure == resp # NoResp /\ resp' = NoResp /\ resp.raised # NoRaise

(***************************************************************************)
(* C25 as written: on the failure path of every request the error is       *)
(* translated to its wire response before the session is released, and the *)
(* response is sent after the release: ErrorTranslated, SessionReleased,   *)
(* Responded.                                                              *)
(***************************************************************************)
C25_FailureOrderAsWritten ==
    [][RespondsToFailure =>
          \E i \in Places(resp.events, "ErrorTranslated") :
             \E j \in Places(resp.events, "SessionReleased") : i < j
      ]_vars

(***************************************************************************)
(* C25: on the failure path of every request that acquired a session, the  *)
(* session is released before the error is translated to its wire          *)
(* response, and the response is sent after the translation: the events    *)
(* occur in the order SessionReleased, ErrorTranslated, Responded.  A      *)
(* request whose session could not be acquired has no release.             *)
(***************************************************************************)
C25_FailureOrder ==
    [][RespondsToFailure =>
          /\ Cardinality(Places(resp.events, "ErrorTranslated")) = 1
          /\ resp.events[Len(resp.events)] = "ErrorTranslated"
          /\ Only(resp.events, SessionEvents \cup {"ErrorTranslated"})
                = IF resp.sessions = 0 THEN <<"ErrorTranslated">>
                  ELSE <<"SessionAcquired", "SessionReleased", "ErrorTranslated">>
      ]_vars

\* the 404 of a PATCH is about to be sent: its session was released, then
\* the HttpError translated
C25_Witness ==
    /\ resp.kind = "update" /\ resp.status = 404
    /\ resp.raised # NoRaise
    /\ resp.events = <<"SessionAcquired", "AuthResolved", "Validated", "SessionReleased",
                       "ErrorTranslated">>

\* every event a comes before every event b
Before(events, a, b) ==
    \A i \in Places(events, a) : \A j \in Places(events, b) : i < j

(***************************************************************************)
(* C26: on the success path of every request, list, get and search         *)
(* included, the caller identity is resolved (or skipped) after the        *)
(* session is acquired and before the request is validated and before the  *)
(* handler reads or writes the store; rendering follows handling, and the  *)
(* session is released after rendering.                                    *)
(***************************************************************************)
C26_SuccessOrder ==
    (resp # NoResp /\ resp.raised = NoRaise) =>
       LET ev == resp.events
           auth == IF Places(ev, "AuthSkipped") # {} THEN "AuthSkipped" ELSE "AuthResolved"
       IN /\ Cardinality(Places(ev, "AuthResolved") \cup Places(ev, "AuthSkipped")) = 1
          /\ Before(ev, "SessionAcquired", auth)
          /\ Before(ev, auth, "Validated")
          /\ Before(ev, auth, "Handled")
          /\ Places(ev, "Handled") # {}
          /\ Before(ev, "Handled", "Rendered")
          /\ Cardinality(Places(ev, "Rendered")) = 1
          /\ Cardinality(Places(ev, "SessionReleased")) = 1
          /\ Before(ev, "Rendered", "SessionReleased")

\* the update or delete request in slot s takes a step
StepOfMutation(s) ==
    /\ reqs'[s] # reqs[s]
    /\ reqs[s].kind \in {"update", "delete"} \/ reqs'[s].kind \in {"update", "delete"}

(***************************************************************************)
(* C27: in update and delete the ownership check runs strictly after the   *)
(* existence check and strictly before any mutation of the store: a        *)
(* request on an id that does not exist returns 404, who the caller is     *)
(* playing no part, and no write or commit is issued before the owner      *)
(* comparison has succeeded.                                               *)
(***************************************************************************)
C27_CheckBeforeMutation ==
    [][/\ (Answers /\ resp'.kind \in {"update", "delete"} /\ resp'.stage = "query") =>
             /\ resp'.ad_id \notin DOMAIN ads => resp'.status = 404
             /\ resp'.ad_id \in DOMAIN ads =>
                   resp'.status = 403 /\ ads[resp'.ad_id].user_id # resp'.user_id
       /\ \A s \in Slots :
             /\ (StepOfMutation(s) /\ reqs[s].pc # "commit") => ads' = ads
             /\ (StepOfMutation(s) /\ reqs[s].pc = "query" /\ reqs'[s].pc = "commit") =>
                   /\ reqs[s].ad_id \in DOMAIN ads
                   /\ ads[reqs[s].ad_id].user_id = reqs[s].user_id
             /\ (StepOfMutation(s) /\ reqs[s].pc = "commit") =>
                   /\ "Handled" \in {reqs[s].events[i] : i \in DOMAIN reqs[s].events}
                   /\ owner0[reqs[s].ad_id] = reqs[s].user_id
      ]_vars

\* a DELETE by a user who never owned the listing, sent after the listing
\* was deleted, was answered 404 and not 403
C27_Witness ==
    /\ resp.kind = "delete" /\ resp.stage = "query" /\ resp.status = 404
    /\ resp.ad_id \in DOMAIN owner0 /\ resp.ad_id \notin DOMAIN ads
    /\ resp.user_id # NoUser /\ owner0[resp.ad_id] # resp.user_id

\* the rows of table that a step adds, removes or rewrites
RowsChanged(before, after) ==
    {i \in DOMAIN before \cup DOMAIN after :
        \/ i \notin DOMAIN before
        \/ i \notin DOMAIN after
        \/ before[i] # after[i]}

\* the commit of request s completes and ends the request with a success
CommitCompletes(s) ==
    /\ reqs[s].pc = "commit" /\ reqs'[s] = Idle
    /\ resp'.kind = reqs[s].kind /\ resp'.status \in {200, 201, 204}

(***************************************************************************)
(* C28: if a request is cancelled at a suspension point (body read, query, *)
(* commit) before its commit completes, the store is unchanged by that     *)
(* request and its session is still released; each mutating request makes  *)
(* its change in a single commit, so no partial change is ever visible to  *)
(* another request: no step of a request but the completion of its commit  *)
(* changes the store, and that step changes one row and ends the request.  *)
(***************************************************************************)
C28_CancelledWritesNothing ==
    [][/\ (resp = NoResp /\ resp'.raised = Raised("CancelledError", "")) =>
             /\ ads' = ads /\ users' = users
             /\ resp'.stage \in {"body", "query", "commit"}
             /\ resp'.status = 0
             /\ resp'.session = "closed"
             /\ resp'.events[Len(resp'.events)] = "SessionReleased"
       /\ \A s \in Slots :
             (reqs'[s] # reqs[s] /\ ~CommitCompletes(s)) => ads' = ads /\ users' = users
       /\ (ads' # ads \/ users' # users) =>
             /\ Cardinality({s \in Slots : reqs'[s] # reqs[s]}) = 1
             /\ Cardinality(RowsChanged(ads, ads')) + Cardinality(RowsChanged(users, users')) = 1
      ]_vars

\* a PATCH of the owner that was cancelled at its commit: the listing kept
\* its title and the session was closed
C28_Witness ==
    /\ resp.raised = Raised("CancelledError", "")
    /\ resp.kind = "update" /\ resp.stage = "commit" /\ resp.session = "closed"
    /\ resp.body.title = JStr(T_Car)
    /\ resp.ad_id \in DOMAIN ads /\ ads[resp.ad_id].title = T_Bike

\* the requests whose handler has started and not ended, and those among
\* them that hold an open session
InFlightRequests == {s \in Slots : reqs[s].pc # "idle"}
OpenSessions == {s \in Slots : reqs[s].session = "open"}

C30_ReadsNeverUnauthorized ==
    resp.kind \in Reads =>
        /\ resp.status # 401
        /\ (resp.stage = "query" /\ (NoBearer(resp.hdr) \/ FailingBearer(resp.hdr))) =>
              /\ \E o \in SameRowsFor(resp, NoHeader) : [o EXCEPT !.hdr = resp.hdr] = resp
              /\ resp.status = 200 =>
                    \A i \in DOMAIN ItemsOf(resp) :
                        LET item == ItemsOf(resp)[i]
                        IN IF resp.format = "json" THEN ~item.is_owner ELSE ~Badge(item)

\* a list with the expired token of user 1 is answered 200 and shows a
\* listing of user 1 as not the caller's own
C30_Witness ==
    /\ resp.kind = "list" /\ resp.status = 200 /\ resp.format = "json"
    /\ resp.hdr = HBearer(ExpiredToken(1))
    /\ \E i \in DOMAIN resp.data.advertisements :
          /\ resp.data.advertisements[i].user_id = 1
          /\ ~resp.data.advertisements[i].is_owner

(***************************************************************************)
(* C31: when a PATCH request has several faults at once the reported error *)
(* follows a fixed precedence, 401 (missing or bad token) before 400       *)
(* (unparseable or invalid body) before 404 (listing absent) before 403    *)
(* (caller is not the owner): a request without a valid token is answered  *)
(* 401; one with a valid token and a body that does not parse or is not a  *)
(* valid update is answered 400, whether the listing exists and whoever    *)
(* owns it; 404 and 403 are answered only to a valid token and a valid     *)
(* body, 403 only for a listing that exists.                               *)
(***************************************************************************)
C31_ErrorPrecedence ==
    resp.kind = "update" =>
        /\ (NoBearer(resp.hdr) \/ FailingBearer(resp.hdr)) => resp.status = 401
        /\ (ValidToken(resp.hdr) /\ resp.stage # "auth" /\ ~ValidPatchBody(resp.body)) =>
              resp.status = 400
        /\ resp.status = 400 => ValidToken(resp.hdr)
        /\ resp.status = 404 =>
              /\ ValidToken(resp.hdr) /\ ValidPatchBody(resp.body)
              /\ resp.ad_id \notin DOMAIN ads
        /\ resp.status = 403 =>
              /\ ValidToken(resp.hdr) /\ ValidPatchBody(resp.body)
              /\ resp.ad_id \in DOMAIN ads
              /\ ads[resp.ad_id].user_id # TokenUser(resp.hdr)
        /\ (ValidToken(resp.hdr) /\ ValidPatchBody(resp.body) /\ resp.stage = "query") =>
              resp.status = IF resp.ad_id \notin DOMAIN ads THEN 404 ELSE 403

====
